---- MODULE Spec2Model ----
(***************************************************************************)
(* URL shortener (RohitDhatrak/url-shortner): the store of short links,    *)
(* the redis lookup cache, the time+counter code generator and the HTTP    *)
(* handlers of service.go, as a state machine.                             *)
(*                                                                         *)
(* Time is the number of seconds since the custom epoch (1 Jan 2025).      *)
(* A Go pointer is a sequence of length 0 (nil) or 1 (the value).          *)
(* A string the code inspects character by character (a short code) is a   *)
(* sequence of one-character strings; a URL is a sequence of its parts.    *)
(***************************************************************************)
EXTENDS Integers, Sequences, FiniteSets, TLC

VARIABLES
    now,                        \* time.Now(), seconds since the custom epoch
    store,                      \* table url_shorteners: sequence of UrlShortener rows
    cache,                      \* redis keys written by cacheUrl
    counter,                    \* helpers.go:15
    lastCounterEpochTimestamp,  \* helpers.go:16
    ctxUser,                    \* the "user" value of the shared *context.Context
    pc,                         \* position of each in-flight request
    loc,                        \* the locals of each in-flight request
    resp,                       \* the response written to each request
    nreq,                       \* number of requests started so far
    ncalls,                     \* number of helper calls made so far
    workload,                   \* the optional request part the clients of this run use
    blockedAPIKeys,             \* main.go: the API keys of blacklist.csv, Nil before a load
    lastBlocklistLoad,          \* main.go: the time of the last load of blacklist.csv
    issued,                     \* history: the links created, by shortenUrl or in bulk
    lastOp                      \* history: the last helper call that completed

vars == <<now, store, cache, counter, lastCounterEpochTimestamp, ctxUser,
          pc, loc, resp, nreq, ncalls, workload, blockedAPIKeys, lastBlocklistLoad, issued, lastOp>>

-----------------------------------------------------------------------------
(* Bounds of the model *)

NumProcs == 2
MaxRequests == 2
MaxHelperCalls == 2
MaxBulkInFlight == 1
MaxTicks == 1
StartTime == 34
MaxLoaded == 4
MaxCacheCalls == 3
MaxOverLimit == 2
MaxNum == 80
MaxGenerated == 7
MaxBatch == 2
MaxConcurrent == 3

(* Program constants *)

MAX_RETRIES == 3
CacheMaxTTL == 86400
NORMAL_SHORT_CODE_LENGTH == 8
Base64Len == 44
RedirectRateLimit == 50
ShortenRateLimit == 10
DefaultRateLimit == 100
SecondWindow == 1
MinuteWindow == 60

-----------------------------------------------------------------------------
(* Go values *)

Nil == <<>>
Ptr(v) == <<v>>
Deref(p) == p[1]

Procs == 1..NumProcs
Times == StartTime..(StartTime + MaxTicks)

-----------------------------------------------------------------------------
(* Code encoder *)

base36Chars ==
    << "0", "1", "2", "3", "4", "5", "6", "7", "8", "9", "a", "b",
       "c", "d", "e", "f", "g", "h", "i", "j", "k", "l", "m", "n",
       "o", "p", "q", "r", "s", "t", "u", "v", "w", "x", "y", "z" >>

RECURSIVE toBase36Loop(_, _)
toBase36Loop(num, result) ==
    IF num > 0
    THEN toBase36Loop(num \div 36, <<base36Chars[(num % 36) + 1]>> \o result)
    ELSE result

\* Variant: without the return of "0" for zero.
toBase36NoZeroCase(num) ==
    toBase36Loop(num, <<>>)

toBase36(num) ==
    IF num = 0 THEN <<"0">> ELSE toBase36Loop(num, <<>>)

-----------------------------------------------------------------------------
(* Persistence: table url_shorteners (model.go, gorm) *)

\* A row of UrlShortener.  CreatedAt and UpdatedAt are written but never read
\* by the program and are left out.
NewUrlShortener(originalUrl, shortCode) ==
    [ OriginalUrl |-> originalUrl,
      ShortCode   |-> shortCode,
      Views       |-> 0,
      LastViewed  |-> Nil,
      UserId      |-> Nil,
      Password    |-> Nil,
      DeletedAt   |-> Nil,
      ExpiresAt   |-> Nil ]

\* Variant: the conditions on deleted_at and expires_at without the one on
\* short_code.
LiveWhereAnyCode(row, shortCode, t) ==
    /\ row.DeletedAt = Nil
    /\ (row.ExpiresAt = Nil \/ Deref(row.ExpiresAt) > t)

\* WHERE short_code = ? AND deleted_at IS NULL
\*   AND (expires_at IS NULL OR expires_at > ?)
LiveWhere(row, shortCode, t) ==
    /\ row.ShortCode = shortCode
    /\ row.DeletedAt = Nil
    /\ (row.ExpiresAt = Nil \/ Deref(row.ExpiresAt) > t)

LiveIndexes(db, t, shortCode) ==
    { i \in DOMAIN db : LiveWhere(db[i], shortCode, t) }

MinOf(S) == CHOOSE x \in S : \A y \in S : x <= y

\* The column short_code is declared `gorm:"unique;not null"`: the constraint
\* covers every row of the table, tombstoned and expired rows included.
UniqueViolationAll(db, row) ==
    \E i \in DOMAIN db : db[i].ShortCode = row.ShortCode

\* Variant: a constraint over the rows without tombstone only.
UniqueViolationLiveOnly(db, row) ==
    \E i \in DOMAIN db : db[i].ShortCode = row.ShortCode /\ db[i].DeletedAt = Nil

UniqueViolation(db, row) == UniqueViolationAll(db, row)

\* Variant: an insert into a table without the unique constraint.
insertUrlUnchecked(db, row, dbErr) ==
    IF dbErr THEN [db |-> db, err |-> "database error"]
    ELSE [db |-> Append(db, row), err |-> ""]

\* insertUrl: db.Create; the error is returned to the caller.
insertUrl(db, row, dbErr) ==
    IF dbErr THEN [db |-> db, err |-> "database error"]
    ELSE IF UniqueViolation(db, row)
    THEN [db |-> db, err |-> "UNIQUE constraint failed"]
    ELSE [db |-> Append(db, row), err |-> ""]

\* Variant: the query without deleted_at IS NULL.
getUrlModelNoTombstoneFilter(db, t, shortCode, dbErr) ==
    LET hit == { i \in DOMAIN db :
                   /\ db[i].ShortCode = shortCode
                   /\ (db[i].ExpiresAt = Nil \/ Deref(db[i].ExpiresAt) > t) }
    IN  IF dbErr \/ hit = {} THEN Nil ELSE Ptr(db[MinOf(hit)])

\* Variant: the query without the condition on expires_at.
getUrlModelNoExpiryFilter(db, t, shortCode, dbErr) ==
    LET hit == { i \in DOMAIN db :
                   db[i].ShortCode = shortCode /\ db[i].DeletedAt = Nil }
    IN  IF dbErr \/ hit = {} THEN Nil ELSE Ptr(db[MinOf(hit)])

\* getUrlModel: the first live row of the code, nil on no row and on any error.
getUrlModel(db, t, shortCode, dbErr) ==
    LET hit == LiveIndexes(db, t, shortCode)
    IN  IF dbErr \/ hit = {} THEN Nil ELSE Ptr(db[MinOf(hit)])

\* deleteUrl: UPDATE ... SET deleted_at = now WHERE short_code = ?.  A struct
\* condition with an empty ShortCode is no condition, which gorm refuses.
deleteUrl(db, t, shortCode, dbErr) ==
    IF dbErr \/ shortCode = <<>>
    THEN [db |-> db, err |-> TRUE]
    ELSE [db |-> [ i \in DOMAIN db |->
                     IF db[i].ShortCode = shortCode
                     THEN [db[i] EXCEPT !.DeletedAt = Ptr(t)]
                     ELSE db[i] ],
          err |-> FALSE]

\* activateUrl: UPDATE ... SET deleted_at = NULL WHERE short_code = ?.
activateUrl(db, shortCode, dbErr) ==
    IF dbErr
    THEN [db |-> db, err |-> TRUE]
    ELSE [db |-> [ i \in DOMAIN db |->
                     IF db[i].ShortCode = shortCode
                     THEN [db[i] EXCEPT !.DeletedAt = Nil]
                     ELSE db[i] ],
          err |-> FALSE]

-----------------------------------------------------------------------------
(* Lookup cache: redis keys holding the JSON of a UrlShortener *)

jsonMarshal(urlModel) == [json |-> urlModel]
jsonUnmarshal(data) == data.json

\* redis GET: a key whose TTL has run out is gone.
RedisGet(c, t, key) == { e \in c : e.key = key /\ e.expireAt > t }

\* redis SET key data EX expiration: replaces the key.
RedisSet(c, t, key, data, expiration) ==
    { e \in c : e.key # key } \cup
        { [key |-> key, data |-> data, expireAt |-> t + expiration] }

\* redis DEL
RedisDel(c, key) == { e \in c : e.key # key }

\* Keys whose TTL has run out are dropped by redis.
RedisExpire(c, t) == { e \in c : e.expireAt > t }

\* Variant: without the return on an expiration that is not positive.
cacheUrlNoExpiryGuard(c, t, shortCode, urlModel, cacheErr) ==
    LET data == jsonMarshal(urlModel)
        expiration == IF urlModel.ExpiresAt # Nil
                      THEN Deref(urlModel.ExpiresAt) - t
                      ELSE CacheMaxTTL
    IN  IF cacheErr
        THEN [cache |-> c, err |-> TRUE]
        ELSE [cache |-> RedisSet(c, t, shortCode, data, expiration), err |-> FALSE]

cacheUrl(c, t, shortCode, urlModel, cacheErr) ==
    LET data == jsonMarshal(urlModel)
        expiration == IF urlModel.ExpiresAt # Nil
                      THEN Deref(urlModel.ExpiresAt) - t
                      ELSE CacheMaxTTL
    IN  IF urlModel.ExpiresAt # Nil /\ expiration <= 0
        THEN [cache |-> c, err |-> FALSE]
        ELSE IF cacheErr
        THEN [cache |-> c, err |-> TRUE]
        ELSE [cache |-> RedisSet(c, t, shortCode, data, expiration), err |-> FALSE]

\* Variant: a failed read hands back an empty model with the error.
getCachedUrlModelOnError(c, t, shortCode, cacheErr) ==
    LET hit == RedisGet(c, t, shortCode)
    IN  IF cacheErr
        THEN [urlModel |-> Ptr(NewUrlShortener(<<>>, shortCode)), err |-> TRUE]
        ELSE IF hit = {} THEN [urlModel |-> Nil, err |-> FALSE]
        ELSE [urlModel |-> Ptr(jsonUnmarshal((CHOOSE e \in hit : TRUE).data)),
              err |-> FALSE]

getCachedUrl(c, t, shortCode, cacheErr) ==
    LET hit == RedisGet(c, t, shortCode)
    IN  IF cacheErr THEN [urlModel |-> Nil, err |-> TRUE]
        ELSE IF hit = {} THEN [urlModel |-> Nil, err |-> FALSE]
        ELSE [urlModel |-> Ptr(jsonUnmarshal((CHOOSE e \in hit : TRUE).data)),
              err |-> FALSE]

\* Variant: DEL reports success and leaves the key.
removeCachedUrlKeepsKey(c, shortCode, cacheErr) ==
    IF cacheErr THEN [cache |-> c, err |-> TRUE]
    ELSE [cache |-> c, err |-> FALSE]

removeCachedUrl(c, shortCode, cacheErr) ==
    IF cacheErr THEN [cache |-> c, err |-> TRUE]
    ELSE [cache |-> RedisDel(c, shortCode), err |-> FALSE]

updateCachedUrl(c, t, shortCode, urlModel, cacheErr) ==
    LET removed == removeCachedUrl(c, shortCode, cacheErr)
    IN  IF removed.err THEN removed
        ELSE cacheUrl(removed.cache, t, shortCode, urlModel, FALSE)

-----------------------------------------------------------------------------
(* Existence check (helpers.go doesShortCodeExist) *)

\* The cache is read first and its error dropped; a failed store query
\* answers false.
doesShortCodeExist(c, db, t, shortCode, cacheErr, dbErr) ==
    LET cached == getCachedUrl(c, t, shortCode, cacheErr)
        exists == Cardinality(LiveIndexes(db, t, shortCode))
    IN  IF cached.urlModel # Nil THEN TRUE
        ELSE IF dbErr THEN FALSE
        ELSE exists > 0

-----------------------------------------------------------------------------
(* Users, requests and responses *)

UsersTable ==
    { [Id |-> 1, ApiKey |-> "key-hobby", Tier |-> "hobby"],
      [Id |-> 2, ApiKey |-> "key-enterprise", Tier |-> "enterprise"] }

getUserFromApiKeyIfExists(apiKey, dbErr) ==
    LET hit == { u \in UsersTable : u.ApiKey = apiKey }
    IN  IF dbErr \/ hit = {} THEN Nil ELSE Ptr(CHOOSE u \in hit : TRUE)

ApiKeys == { "", "key-hobby", "key-enterprise" }

\* URLs as the parts http.Redirect tells apart: a scheme, a leading slash.
AbsUrl == << "http://", "example.com" >>
RelUrl == << "example.com" >>
EmptyUrl == <<>>
Urls == { AbsUrl, RelUrl, EmptyUrl }

\* An expires_at string of a request body: RFC 3339 or not.
TimeString(t) == [rfc3339 |-> TRUE, t |-> t]
BadTimeString == [rfc3339 |-> FALSE, t |-> 0]
timeParse(str) == [err |-> ~str.rfc3339, t |-> str.t]

ExpiresAtChoices ==
    { Nil, Ptr(TimeString(StartTime)), Ptr(TimeString(StartTime + 1)),
      Ptr(BadTimeString) }

\* The custom code a request may ask for is one the generator also produces.
CustomCode == toBase36(StartTime + 1)
CustomUrlChoices == { Nil, Ptr(CustomCode), Ptr(<<>>) }

\* The password of a request body; the empty one is accepted as any other
\* (service.go:82-90).
Passwords == { "", "secret" }
PasswordChoices == { Nil } \cup { Ptr(pw) : pw \in Passwords }

bcryptGenerateFromPassword(pw) == << "bcrypt", pw >>
bcryptCompareHashAndPassword(hash, pw) == hash = << "bcrypt", pw >>

PlainBody ==
    [ URL |-> AbsUrl, ExpiresAt |-> Nil, CustomUrl |-> Nil, Password |-> Nil ]

\* The clients of one run use one optional part of the request; the others
\* keep their default.
Workloads == { "url", "expires_at", "custom_url", "password", "api_key", "bulk" }

ShortenBodies(w) ==
    { PlainBody } \cup
    CASE w = "url"        -> { [PlainBody EXCEPT !.URL = u] : u \in Urls }
      [] w = "expires_at" -> { [PlainBody EXCEPT !.ExpiresAt = e] : e \in ExpiresAtChoices }
      [] w = "custom_url" -> { [PlainBody EXCEPT !.CustomUrl = c] : c \in CustomUrlChoices }
      [] w = "password"   -> { [PlainBody EXCEPT !.Password = pw] : pw \in PasswordChoices }
      [] w = "bulk"       -> { [PlainBody EXCEPT !.CustomUrl = Ptr(CustomCode)] }
      [] OTHER            -> {}

ShortenApiKeys(w) == IF w = "api_key" THEN ApiKeys ELSE { "" }

\* The keys the requests to the authenticated routes carry.
AuthApiKeys(w) ==
    CASE w = "api_key" -> ApiKeys
      [] w = "bulk"    -> { "key-hobby", "key-enterprise" }
      [] OTHER         -> {}

\* The urls of a bulk request: none, one or two items.
CustomBody == [PlainBody EXCEPT !.CustomUrl = Ptr(CustomCode)]
BadExpiryBody == [PlainBody EXCEPT !.ExpiresAt = Ptr(BadTimeString)]

BulkItems(w) ==
    IF w = "bulk"
    THEN { <<>>, <<PlainBody>>, <<CustomBody, PlainBody>>,
           <<CustomBody, CustomBody>>, <<BadExpiryBody, PlainBody>> }
    ELSE {}

NoBody == [ URL |-> EmptyUrl, ExpiresAt |-> Nil, CustomUrl |-> Nil, Password |-> Nil ]

LocInit ==
    [ op               |-> "none",
      body             |-> NoBody,
      apiKey           |-> "",
      user             |-> Nil,
      retryCount       |-> 0,
      currentEpochTime |-> 0,
      count            |-> 0,
      shortCode        |-> <<>>,
      checkDbErr       |-> FALSE,   \* history: the last existence check's query failed
      insertErr        |-> "",      \* the error insertUrl returned
      exhausted        |-> FALSE,   \* history: createShortUrlWithRetry ran out of retries
      activate         |-> Nil,     \* editUrl: the activate field of the body
      items            |-> <<>>,    \* shortenUrlBulk: the urls of the body
      idx              |-> 0,       \* shortenUrlBulk: the item being created
      shortCodes       |-> <<>> ]   \* shortenUrlBulk: the results so far

NoResp ==
    [ status |-> 0, body |-> "", shortCode |-> <<>>, location |-> <<>>,
      shortCodes |-> <<>> ]

Response(status, body) == [ NoResp EXCEPT !.status = status, !.body = body ]

NoOp == [ op |-> "none", shortCode |-> <<>> ]

-----------------------------------------------------------------------------
(* Initial state *)

Init ==
    /\ now = StartTime
    /\ store = <<>>
    /\ cache = {}
    /\ counter = 0
    /\ lastCounterEpochTimestamp = 0
    /\ ctxUser = Nil
    /\ pc = [p \in Procs |-> "idle"]
    /\ loc = [p \in Procs |-> LocInit]
    /\ resp = [p \in Procs |-> NoResp]
    /\ nreq = 0
    /\ ncalls = 0
    /\ workload \in Workloads
    /\ blockedAPIKeys = Ptr({})
    /\ lastBlocklistLoad = StartTime
    /\ issued = {}
    /\ lastOp = NoOp

\* A handler writes its response and returns.
Reply(p, r) ==
    /\ pc' = [pc EXCEPT ![p] = "done"]
    /\ resp' = [resp EXCEPT ![p] = r]

\* A request is served by the lowest free slot.
FreeSlot(p) ==
    /\ pc[p] = "idle"
    /\ \A q \in Procs : q < p => pc[q] # "idle"

Goto(p, label) ==
    /\ pc' = [pc EXCEPT ![p] = label]
    /\ UNCHANGED resp

\* The passing of time; redis drops the keys whose TTL has run out.
Tick ==
    /\ now < StartTime + MaxTicks
    /\ now' = now + 1
    /\ cache' = RedisExpire(cache, now + 1)
    /\ UNCHANGED <<store, counter, lastCounterEpochTimestamp, ctxUser,
                   pc, loc, resp, nreq, ncalls, workload, blockedAPIKeys, lastBlocklistLoad, issued>>
    /\ lastOp' = NoOp

\* The client has read the response; the slot serves the next request.
Finish(p) ==
    /\ pc[p] = "done"
    /\ pc' = [pc EXCEPT ![p] = "idle"]
    /\ loc' = [loc EXCEPT ![p] = LocInit]
    /\ resp' = [resp EXCEPT ![p] = NoResp]
    /\ UNCHANGED <<now, store, cache, counter, lastCounterEpochTimestamp,
                   ctxUser, nreq, ncalls, workload, blockedAPIKeys, lastBlocklistLoad, issued>>
    /\ lastOp' = NoOp

-----------------------------------------------------------------------------
(* createShortCode (helpers.go:41-70), one step per access to shared state *)

\* Variant: the budget is used up at MAX_RETRIES, not past it.
CscEnterPanicsAtMax(p) ==
    /\ pc[p] = "csc"
    /\ IF loc[p].retryCount >= MAX_RETRIES
       THEN /\ Reply(p, Response(0, "panic: max retry count exceded"))
            /\ UNCHANGED <<loc, counter>>
       ELSE /\ counter' = counter + 1
            /\ loc' = [loc EXCEPT ![p].currentEpochTime = now,
                                  ![p].count = counter + 1]
            /\ Goto(p, "cscCompare")
    /\ UNCHANGED <<now, store, cache, lastCounterEpochTimestamp, ctxUser,
                   nreq, ncalls, workload, blockedAPIKeys, lastBlocklistLoad, issued>>
    /\ lastOp' = NoOp

\* Variant: without the retry budget of lines 42-45.
CscEnterNoBudget(p) ==
    /\ pc[p] = "csc"
    /\ counter' = counter + 1
    /\ loc' = [loc EXCEPT ![p].currentEpochTime = now,
                          ![p].count = counter + 1]
    /\ Goto(p, "cscCompare")
    /\ UNCHANGED <<now, store, cache, lastCounterEpochTimestamp, ctxUser,
                   nreq, ncalls, workload, blockedAPIKeys, lastBlocklistLoad, issued>>
    /\ lastOp' = NoOp

\* Lines 42-51: the retry budget, the clock, the atomic increment.
CscEnter(p) ==
    /\ pc[p] = "csc"
    /\ IF loc[p].retryCount > MAX_RETRIES
       THEN /\ Reply(p, Response(0, "panic: max retry count exceded"))
            /\ UNCHANGED <<loc, counter>>
       ELSE /\ counter' = counter + 1
            /\ loc' = [loc EXCEPT ![p].currentEpochTime = now,
                                  ![p].count = counter + 1]
            /\ Goto(p, "cscCompare")
    /\ UNCHANGED <<now, store, cache, lastCounterEpochTimestamp, ctxUser,
                   nreq, ncalls, workload, blockedAPIKeys, lastBlocklistLoad, issued>>
    /\ lastOp' = NoOp

\* Line 54: the unsynchronised read of lastCounterEpochTimestamp.
CscCompare(p) ==
    /\ pc[p] = "cscCompare"
    /\ IF loc[p].currentEpochTime # lastCounterEpochTimestamp
       THEN Goto(p, "cscReset")
       ELSE Goto(p, "cscCheck")
    /\ UNCHANGED <<now, store, cache, counter, lastCounterEpochTimestamp,
                   ctxUser, loc, nreq, ncalls, workload, blockedAPIKeys, lastBlocklistLoad, issued>>
    /\ lastOp' = NoOp

\* Lines 55-56: the counter restarts and the epoch second is remembered.
CscReset(p) ==
    /\ pc[p] = "cscReset"
    /\ counter' = 0
    /\ lastCounterEpochTimestamp' = loc[p].currentEpochTime
    /\ Goto(p, "cscCheck")
    /\ UNCHANGED <<now, store, cache, ctxUser, loc, nreq, ncalls, workload, blockedAPIKeys, lastBlocklistLoad, issued>>
    /\ lastOp' = NoOp

numbericShortCode(l) == l.count + l.currentEpochTime

\* Lines 61-69: encode, check, retry or return to the caller.
CscCheck(p) ==
    /\ pc[p] = "cscCheck"
    /\ \E cacheErr \in BOOLEAN, dbErr \in BOOLEAN :
         LET shortCode == toBase36(numbericShortCode(loc[p]))
             shortCodeExists ==
                 doesShortCodeExist(cache, store, now, shortCode, cacheErr, dbErr)
         IN  IF shortCodeExists
             THEN /\ loc' = [loc EXCEPT ![p].retryCount = @ + 1,
                                        ![p].shortCode = shortCode,
                                        ![p].checkDbErr = dbErr]
                  /\ Goto(p, "csc")
             ELSE /\ loc' = [loc EXCEPT ![p].shortCode = shortCode,
                                        ![p].checkDbErr = dbErr]
                  /\ Goto(p, "insert")
    /\ UNCHANGED <<now, store, cache, counter, lastCounterEpochTimestamp,
                   ctxUser, nreq, ncalls, workload, blockedAPIKeys, lastBlocklistLoad, issued>>
    /\ lastOp' = NoOp

-----------------------------------------------------------------------------
(* shortenUrl (service.go:32-103) *)

\* Lines 40-67: validation, the user of the API key, the choice of the code.
ShortenStart(p, body, apiKey) ==
    /\ FreeSlot(p)
    /\ nreq < MaxRequests
    /\ nreq' = nreq + 1
    /\ \E dbErr \in BOOLEAN :
         LET user == getUserFromApiKeyIfExists(apiKey, dbErr)
             l == [LocInit EXCEPT !.op = "shorten", !.body = body,
                                  !.apiKey = apiKey, !.user = user]
         IN  IF body.URL = EmptyUrl
             THEN /\ Reply(p, Response(400, "URL is required"))
                  /\ loc' = [loc EXCEPT ![p] = [LocInit EXCEPT !.op = "shorten"]]
             ELSE IF body.CustomUrl # Nil /\ Deref(body.CustomUrl) = <<>>
             THEN /\ Reply(p, Response(400, "Custom URL cannot be empty"))
                  /\ loc' = [loc EXCEPT ![p] = [LocInit EXCEPT !.op = "shorten"]]
             ELSE /\ loc' = [loc EXCEPT ![p] = l]
                  /\ IF body.CustomUrl # Nil
                     THEN Goto(p, "customCheck")
                     ELSE Goto(p, "csc")
    /\ UNCHANGED <<now, store, cache, counter, lastCounterEpochTimestamp,
                   ctxUser, ncalls, workload, blockedAPIKeys, lastBlocklistLoad, issued>>
    /\ lastOp' = NoOp

\* Lines 59-64: a custom code is taken when doesShortCodeExist answers false.
ShortenCustomCheck(p) ==
    /\ pc[p] = "customCheck"
    /\ loc[p].op = "shorten"
    /\ \E cacheErr \in BOOLEAN, dbErr \in BOOLEAN :
         IF doesShortCodeExist(cache, store, now, Deref(loc[p].body.CustomUrl),
                               cacheErr, dbErr)
         THEN /\ Reply(p, Response(400, "This custom URL already exists"))
              /\ loc' = [loc EXCEPT ![p].checkDbErr = dbErr]
         ELSE /\ loc' = [loc EXCEPT ![p].shortCode = Deref(loc[p].body.CustomUrl),
                                    ![p].checkDbErr = dbErr]
              /\ Goto(p, "insert")
    /\ UNCHANGED <<now, store, cache, counter, lastCounterEpochTimestamp,
                   ctxUser, nreq, ncalls, workload, blockedAPIKeys, lastBlocklistLoad, issued>>
    /\ lastOp' = NoOp

\* The row a request builds (service.go:69-92).
BuildUrlShortener(body, shortCode, user) ==
    [ NewUrlShortener(body.URL, shortCode) EXCEPT
        !.UserId = IF user # Nil THEN Ptr(Deref(user).Id) ELSE Nil,
        !.ExpiresAt = IF body.ExpiresAt # Nil
                      THEN Ptr(timeParse(Deref(body.ExpiresAt)).t) ELSE Nil,
        !.Password = IF body.Password # Nil
                     THEN Ptr(bcryptGenerateFromPassword(Deref(body.Password)))
                     ELSE Nil ]

Created(shortCode) ==
    [ Response(201, "short_code") EXCEPT !.shortCode = shortCode ]

\* Lines 69-102: build the row, insert it, answer.
ShortenInsert(p) ==
    /\ pc[p] = "insert"
    /\ loc[p].op = "shorten"
    /\ LET l == loc[p]
           body == l.body
       IN  IF body.ExpiresAt # Nil /\ timeParse(Deref(body.ExpiresAt)).err
           THEN /\ Reply(p, Response(400, "Invalid expiry date"))
                /\ UNCHANGED <<store, issued, loc>>
           ELSE \E dbErr \in BOOLEAN :
                  LET urlShortener == BuildUrlShortener(body, l.shortCode, l.user)
                      result == insertUrl(store, urlShortener, dbErr)
                  IN  /\ store' = result.db
                      /\ loc' = [loc EXCEPT ![p].insertErr = result.err]
                      /\ IF result.err # ""
                         THEN /\ Reply(p, Response(500, "Error creating the short URL"))
                              /\ UNCHANGED issued
                         ELSE /\ Reply(p, Created(l.shortCode))
                              /\ issued' = issued \cup
                                   { [ op |-> "shorten", shortCode |-> l.shortCode,
                                       url |-> body.URL,
                                       custom |-> body.CustomUrl # Nil ] }
    /\ UNCHANGED <<now, cache, counter, lastCounterEpochTimestamp, ctxUser,
                   nreq, ncalls, workload, blockedAPIKeys, lastBlocklistLoad>>
    /\ lastOp' = NoOp

-----------------------------------------------------------------------------
(* redirectToOriginalUrl (service.go:257-285) *)

\* http.Redirect: a URL with neither scheme nor host is taken relative to the
\* path of the request, /redirect, whose directory is "/".
Schemes == { "http://", "https://" }

httpRedirectLocation(url) ==
    IF url # <<>> /\ url[1] \in Schemes THEN url
    ELSE IF url # <<>> /\ url[1] = "/" THEN url
    ELSE << "/" >> \o url

Redirected(location) ==
    [ Response(307, "") EXCEPT !.location = location ]

\* Variant: any password that is not empty gets through.
redirectResponseNoCompare(urlModel, password) ==
    IF urlModel = Nil THEN Response(404, "Short code not found")
    ELSE IF Deref(urlModel).Password # Nil /\ password = ""
    THEN Response(400, "Password is required")
    ELSE Redirected(httpRedirectLocation(Deref(urlModel).OriginalUrl))

redirectResponse(urlModel, password) ==
    IF urlModel = Nil THEN Response(404, "Short code not found")
    ELSE IF Deref(urlModel).Password # Nil /\ password = ""
    THEN Response(400, "Password is required")
    ELSE IF /\ Deref(urlModel).Password # Nil
            /\ ~bcryptCompareHashAndPassword(Deref(Deref(urlModel).Password), password)
    THEN Response(401, "Invalid password")
    ELSE Redirected(httpRedirectLocation(Deref(urlModel).OriginalUrl))

UnknownCode == << "z", "z", "z", "z", "z", "z", "z", "z" >>
StoreCodes == { store[i].ShortCode : i \in DOMAIN store }
RequestCodes == StoreCodes \cup { UnknownCode, <<>> }
HeaderPasswords(w) ==
    IF w = "password" THEN { "" } \cup Passwords \cup { "wrong" } ELSE { "" }

RedirectLoc(shortCode, password, dbErr) ==
    [ LocInit EXCEPT !.op = "redirect", !.shortCode = shortCode,
                     !.body.Password = IF password = "" THEN Nil ELSE Ptr(password),
                     !.checkDbErr = dbErr ]

redirectToOriginalUrl(p, shortCode, password) ==
    /\ FreeSlot(p)
    /\ nreq < MaxRequests
    /\ nreq' = nreq + 1
    /\ IF shortCode = <<>>
       THEN /\ Reply(p, Response(400, "Missing code parameter"))
            /\ loc' = [loc EXCEPT ![p] = RedirectLoc(shortCode, password, FALSE)]
       ELSE \E dbErr \in BOOLEAN :
              /\ loc' = [loc EXCEPT ![p] = RedirectLoc(shortCode, password, dbErr)]
              /\ Reply(p, redirectResponse(
                     getUrlModel(store, now, shortCode, dbErr), password))
    /\ UNCHANGED <<now, store, cache, counter, lastCounterEpochTimestamp,
                   ctxUser, ncalls, workload, blockedAPIKeys, lastBlocklistLoad, issued>>
    /\ lastOp' = NoOp

-----------------------------------------------------------------------------
(* Calls of the store and cache helpers on a code (helpers.go) *)

HelperCodes == StoreCodes \cup { CustomCode }

\* The helpers are called directly by a sequential client (the package's
\* tests), between its requests.
Quiescent == \A p \in Procs : pc[p] = "idle"

\* The store helpers are called directly where the clients have no API key
\* for the routes that call them; the cache helpers, where a client resolves.
StoreHelperWorkloads == { "url", "expires_at", "custom_url", "password" }
CacheHelperWorkloads == StoreHelperWorkloads \cup { "api_key" }

Done(op, shortCode) == [ op |-> op, shortCode |-> shortCode ]

deleteUrlCall(shortCode) ==
    /\ Quiescent
    /\ workload \in StoreHelperWorkloads
    /\ ncalls < MaxHelperCalls
    /\ ncalls' = ncalls + 1
    /\ \E dbErr \in BOOLEAN :
      LET result == deleteUrl(store, now, shortCode, dbErr)
      IN  /\ store' = result.db
          /\ lastOp' = IF result.err THEN NoOp ELSE Done("deleteUrl", shortCode)
          /\ UNCHANGED <<now, cache, counter, lastCounterEpochTimestamp,
                         ctxUser, pc, loc, resp, nreq, workload, blockedAPIKeys, lastBlocklistLoad, issued>>

activateUrlCall(shortCode) ==
    /\ Quiescent
    /\ workload \in StoreHelperWorkloads
    /\ ncalls < MaxHelperCalls
    /\ ncalls' = ncalls + 1
    /\ \E dbErr \in BOOLEAN :
      LET result == activateUrl(store, shortCode, dbErr)
      IN  /\ store' = result.db
          /\ lastOp' = IF result.err THEN NoOp ELSE Done("activateUrl", shortCode)
          /\ UNCHANGED <<now, cache, counter, lastCounterEpochTimestamp,
                         ctxUser, pc, loc, resp, nreq, workload, blockedAPIKeys, lastBlocklistLoad, issued>>

\* Read-through population: the live row of a code is written to the cache.
cacheUrlCall(shortCode) ==
    /\ Quiescent
    /\ workload \in CacheHelperWorkloads
    /\ ncalls < MaxHelperCalls
    /\ ncalls' = ncalls + 1
    /\ \E cacheErr \in BOOLEAN :
      LET urlModel == getUrlModel(store, now, shortCode, FALSE)
          result == cacheUrl(cache, now, shortCode, Deref(urlModel), cacheErr)
      IN  /\ urlModel # Nil
          /\ cache' = result.cache
          /\ lastOp' = IF result.err THEN NoOp ELSE Done("cacheUrl", shortCode)
          /\ UNCHANGED <<now, store, counter, lastCounterEpochTimestamp,
                         ctxUser, pc, loc, resp, nreq, workload, blockedAPIKeys, lastBlocklistLoad, issued>>

removeCachedUrlCall(shortCode) ==
    /\ Quiescent
    /\ workload \in CacheHelperWorkloads
    /\ ncalls < MaxHelperCalls
    /\ ncalls' = ncalls + 1
    /\ \E cacheErr \in BOOLEAN :
      LET result == removeCachedUrl(cache, shortCode, cacheErr)
      IN  /\ cache' = result.cache
          /\ lastOp' = IF result.err THEN NoOp
                       ELSE Done("removeCachedUrl", shortCode)
          /\ UNCHANGED <<now, store, counter, lastCounterEpochTimestamp,
                         ctxUser, pc, loc, resp, nreq, workload, blockedAPIKeys, lastBlocklistLoad, issued>>

-----------------------------------------------------------------------------
(* apiKeyMiddleware (main.go:296-318): the authenticated routes *)

\* The request arrives with its API key; the user found is stored in the
\* context every handler shares (line 313).
apiKeyMiddleware(p, l, next) ==
    /\ FreeSlot(p)
    /\ nreq < MaxRequests
    /\ nreq' = nreq + 1
    /\ loc' = [loc EXCEPT ![p] = l]
    /\ \E dbErr \in BOOLEAN :
         LET user == getUserFromApiKeyIfExists(l.apiKey, dbErr)
         IN  IF l.apiKey = "" \/ user = Nil
             THEN /\ Reply(p, Response(401, "Invalid API key"))
                  /\ UNCHANGED ctxUser
             ELSE /\ ctxUser' = user
                  /\ Goto(p, next)
    /\ UNCHANGED <<now, store, cache, counter, lastCounterEpochTimestamp,
                   ncalls, workload, blockedAPIKeys, lastBlocklistLoad, issued>>
    /\ lastOp' = NoOp

getUserFromContext == ctxUser

NotOwner(urlModel, user) ==
    \/ Deref(urlModel).UserId = Nil
    \/ Deref(Deref(urlModel).UserId) # Deref(user).Id

-----------------------------------------------------------------------------
(* deleteShortCode (service.go:287-315) *)

DeleteRequest(p, shortCode, apiKey) ==
    apiKeyMiddleware(p, [LocInit EXCEPT !.op = "delete", !.apiKey = apiKey,
                                        !.shortCode = shortCode], "delete")

\* Lines 288-305: the live row of the code and the user of the context.
DeleteLookup(p) ==
    /\ pc[p] = "delete"
    /\ \E dbErr \in BOOLEAN :
         LET urlModel == getUrlModel(store, now, loc[p].shortCode, dbErr)
             user == getUserFromContext
         IN  /\ loc' = [loc EXCEPT ![p].user = user]
             /\ IF loc[p].shortCode = <<>>
                THEN Reply(p, Response(400, "Missing code parameter"))
                ELSE IF urlModel = Nil
                THEN Reply(p, Response(404, "Short code not found"))
                ELSE IF NotOwner(urlModel, user)
                THEN Reply(p, Response(403,
                         "You are not authorized to delete this short code"))
                ELSE Goto(p, "deleteWrite")
    /\ UNCHANGED <<now, store, cache, counter, lastCounterEpochTimestamp,
                   ctxUser, nreq, ncalls, workload, blockedAPIKeys, lastBlocklistLoad, issued>>
    /\ lastOp' = NoOp

\* Lines 307-314: the tombstone.
DeleteWrite(p) ==
    /\ pc[p] = "deleteWrite"
    /\ \E dbErr \in BOOLEAN :
         LET result == deleteUrl(store, now, loc[p].shortCode, dbErr)
         IN  /\ store' = result.db
             /\ IF result.err
                THEN /\ Reply(p, Response(500, "Error deleting short code"))
                     /\ lastOp' = NoOp
                ELSE /\ Reply(p, Response(200, "ok"))
                     /\ lastOp' = Done("deleteUrl", loc[p].shortCode)
    /\ UNCHANGED <<now, cache, counter, lastCounterEpochTimestamp, ctxUser,
                   loc, nreq, ncalls, workload, blockedAPIKeys, lastBlocklistLoad, issued>>

-----------------------------------------------------------------------------
(* editUrl (service.go:215-255) *)

ActivateChoices == { Nil, Ptr(TRUE), Ptr(FALSE) }

EditRequest(p, shortCode, activate, apiKey) ==
    apiKeyMiddleware(p, [LocInit EXCEPT !.op = "edit", !.apiKey = apiKey,
                                        !.shortCode = shortCode,
                                        !.activate = activate], "edit")

\* Lines 226-242.
EditLookup(p) ==
    /\ pc[p] = "edit"
    /\ \E dbErr \in BOOLEAN :
         LET urlModel == getUrlModel(store, now, loc[p].shortCode, dbErr)
             user == getUserFromContext
         IN  /\ loc' = [loc EXCEPT ![p].user = user]
             /\ IF urlModel = Nil
                THEN Reply(p, Response(404, "Short code not found"))
                ELSE IF NotOwner(urlModel, user)
                THEN Reply(p, Response(403,
                         "You are not authorized to delete this short code"))
                ELSE IF loc[p].shortCode = <<>>
                THEN Reply(p, Response(400, "Short code is required"))
                ELSE Goto(p, "editWrite")
    /\ UNCHANGED <<now, store, cache, counter, lastCounterEpochTimestamp,
                   ctxUser, nreq, ncalls, workload, blockedAPIKeys, lastBlocklistLoad, issued>>
    /\ lastOp' = NoOp

\* Lines 244-254: the error of the helper is dropped.
EditWrite(p) ==
    /\ pc[p] = "editWrite"
    /\ \E dbErr \in BOOLEAN :
         LET activate == loc[p].activate
             activated == activateUrl(store, loc[p].shortCode, dbErr)
             deleted == deleteUrl(store, now, loc[p].shortCode, dbErr)
         IN  IF activate = Nil
             THEN /\ UNCHANGED store
                  /\ lastOp' = NoOp
             ELSE IF Deref(activate)
             THEN /\ store' = activated.db
                  /\ lastOp' = IF activated.err THEN NoOp
                               ELSE Done("activateUrl", loc[p].shortCode)
             ELSE /\ store' = deleted.db
                  /\ lastOp' = IF deleted.err THEN NoOp
                               ELSE Done("deleteUrl", loc[p].shortCode)
    /\ Reply(p, Response(200, "ok"))
    /\ UNCHANGED <<now, cache, counter, lastCounterEpochTimestamp, ctxUser,
                   loc, nreq, ncalls, workload, blockedAPIKeys, lastBlocklistLoad, issued>>

-----------------------------------------------------------------------------
(* shortenUrlBulk (service.go:105-213) behind pricingPlanMiddleware *)

BulkInFlight == { q \in Procs : loc[q].op = "bulk" }

BulkRequest(p, items, apiKey) ==
    /\ Cardinality(BulkInFlight) < MaxBulkInFlight
    /\ apiKeyMiddleware(p, [LocInit EXCEPT !.op = "bulk", !.apiKey = apiKey,
                                           !.items = items], "pricing")

\* main.go:320-333
pricingPlanMiddleware(p) ==
    /\ pc[p] = "pricing"
    /\ IF Deref(getUserFromContext).Tier # "enterprise"
       THEN Reply(p, Response(403, "You are not authorized to access this resource"))
       ELSE Goto(p, "bulk")
    /\ UNCHANGED <<now, store, cache, counter, lastCounterEpochTimestamp,
                   ctxUser, loc, nreq, ncalls, workload, blockedAPIKeys, lastBlocklistLoad, issued>>
    /\ lastOp' = NoOp

BulkCreated(shortCodes) ==
    [ Response(201, "short_codes") EXCEPT !.shortCodes = shortCodes ]

\* The loop of lines 163-202 moves to item l.idx: its custom code is
\* inserted, a code is generated for it, or the list is answered.
BulkContinue(p, l) ==
    IF l.idx > Len(l.items)
    THEN /\ loc' = [loc EXCEPT ![p] = l]
         /\ Reply(p, BulkCreated(l.shortCodes))
    ELSE IF l.items[l.idx].CustomUrl # Nil
    THEN /\ loc' = [loc EXCEPT ![p] =
                      [l EXCEPT !.shortCode = Deref(l.items[l.idx].CustomUrl)]]
         /\ Goto(p, "insert")
    ELSE /\ loc' = [loc EXCEPT ![p] = [l EXCEPT !.retryCount = 0]]
         /\ Goto(p, "csc")

\* Lines 106-160: the user of the context and the validation of the items.
BulkValidate(p) ==
    /\ pc[p] = "bulk"
    /\ \E cacheErr \in BOOLEAN, dbErr \in BOOLEAN :
         LET l == loc[p]
             items == l.items
             emptyUrl == { i \in DOMAIN items : items[i].URL = EmptyUrl }
             emptyCustom == { i \in DOMAIN items :
                                /\ items[i].CustomUrl # Nil
                                /\ Deref(items[i].CustomUrl) = <<>> }
             firstBad == MinOf(emptyUrl \cup emptyCustom)
             existingCustomUrls ==
                 { i \in DOMAIN items :
                     /\ items[i].CustomUrl # Nil
                     /\ doesShortCodeExist(cache, store, now,
                            Deref(items[i].CustomUrl), cacheErr, dbErr) }
             customUrls == { i \in DOMAIN items : items[i].CustomUrl # Nil }
             started == [l EXCEPT !.user = getUserFromContext, !.idx = 1,
                                  !.checkDbErr = dbErr /\ customUrls # {}]
         IN  IF Len(items) = 0
             THEN /\ Reply(p, Response(400, "URLs are required"))
                  /\ UNCHANGED loc
             ELSE IF emptyUrl \cup emptyCustom # {}
             THEN /\ Reply(p, IF firstBad \in emptyUrl
                              THEN Response(400, "Empty url at position")
                              ELSE Response(400, "Custom URL cannot be empty"))
                  /\ UNCHANGED loc
             ELSE IF existingCustomUrls # {}
             THEN /\ Reply(p, Response(400, "These custom URLs already exist"))
                  /\ UNCHANGED loc
             ELSE BulkContinue(p, started)
    /\ UNCHANGED <<now, store, cache, counter, lastCounterEpochTimestamp,
                   ctxUser, nreq, ncalls, workload, blockedAPIKeys, lastBlocklistLoad, issued>>
    /\ lastOp' = NoOp

InvalidExpiryMarker == << "Invalid expiry date" >>
ErrorMarker == << "Error creating short URL" >>

\* Lines 171-201: the row of item idx is built and inserted.
BulkInsert(p) ==
    /\ pc[p] = "insert"
    /\ loc[p].op = "bulk"
    /\ LET l == loc[p]
           item == l.items[l.idx]
       IN  IF item.ExpiresAt # Nil /\ timeParse(Deref(item.ExpiresAt)).err
           THEN /\ BulkContinue(p, [l EXCEPT !.idx = @ + 1,
                                     !.shortCodes = Append(@, InvalidExpiryMarker)])
                /\ UNCHANGED <<store, issued>>
           ELSE \E dbErr \in BOOLEAN :
                  LET urlShortener == BuildUrlShortener(item, l.shortCode, l.user)
                      result == insertUrl(store, urlShortener, dbErr)
                  IN  /\ store' = result.db
                      /\ BulkContinue(p,
                           [l EXCEPT !.idx = @ + 1,
                                     !.insertErr = result.err,
                                     !.shortCodes =
                                         Append(@, IF result.err = ""
                                                   THEN l.shortCode
                                                   ELSE ErrorMarker)])
                      /\ issued' = IF result.err # "" THEN issued
                                   ELSE issued \cup
                                     { [ op |-> "bulk", shortCode |-> l.shortCode,
                                         url |-> item.URL,
                                         custom |-> item.CustomUrl # Nil ] }
    /\ UNCHANGED <<now, cache, counter, lastCounterEpochTimestamp, ctxUser,
                   nreq, ncalls, workload, blockedAPIKeys, lastBlocklistLoad>>
    /\ lastOp' = NoOp

-----------------------------------------------------------------------------
(* Next-state relation *)

Next ==
    \/ Tick
    \/ \E p \in Procs : Finish(p)
    \/ \E p \in Procs, body \in ShortenBodies(workload),
             apiKey \in ShortenApiKeys(workload) :
          ShortenStart(p, body, apiKey)
    \/ \E p \in Procs : ShortenCustomCheck(p)
    \/ \E p \in Procs : CscEnter(p)
    \/ \E p \in Procs : CscCompare(p)
    \/ \E p \in Procs : CscReset(p)
    \/ \E p \in Procs : CscCheck(p)
    \/ \E p \in Procs : ShortenInsert(p)
    \/ \E p \in Procs, shortCode \in RequestCodes, password \in HeaderPasswords(workload) :
          redirectToOriginalUrl(p, shortCode, password)
    \/ \E p \in Procs, shortCode \in RequestCodes, apiKey \in AuthApiKeys(workload) :
          DeleteRequest(p, shortCode, apiKey)
    \/ \E p \in Procs : DeleteLookup(p)
    \/ \E p \in Procs : DeleteWrite(p)
    \/ \E p \in Procs, shortCode \in RequestCodes, activate \in ActivateChoices,
             apiKey \in AuthApiKeys(workload) :
          EditRequest(p, shortCode, activate, apiKey)
    \/ \E p \in Procs : EditLookup(p)
    \/ \E p \in Procs : EditWrite(p)
    \/ \E p \in Procs, items \in BulkItems(workload),
             apiKey \in AuthApiKeys(workload) :
          BulkRequest(p, items, apiKey)
    \/ \E p \in Procs : pricingPlanMiddleware(p)
    \/ \E p \in Procs : BulkValidate(p)
    \/ \E p \in Procs : BulkInsert(p)
    \/ \E shortCode \in HelperCodes : deleteUrlCall(shortCode)
    \/ \E shortCode \in HelperCodes : activateUrlCall(shortCode)
    \/ \E shortCode \in HelperCodes : cacheUrlCall(shortCode)
    \/ \E shortCode \in HelperCodes : removeCachedUrlCall(shortCode)

Spec == Init /\ [][Next]_vars

-----------------------------------------------------------------------------
(* The content-hash strategy of the earlier revision (unnamed/part_002) *)

\* base64.StdEncoding.EncodeToString(sha256.Sum256(input)): 44 characters;
\* character i of the digest of an input is the pair <<input, i>>.
sha256Base64(input) == [ i \in 1..Base64Len |-> <<input, i>> ]

hashedUrl(originalUrl, additionalLength) ==
    LET HASH_TRIM_LENGTH == NORMAL_SHORT_CODE_LENGTH + additionalLength
        shortCode == sha256Base64(originalUrl)
    IN  SubSeq(shortCode, 1, HASH_TRIM_LENGTH)

\* uuid.New().String()
Uuids == { "uuid-1", "uuid-2" }

Returned(shortCode) ==
    [ NoResp EXCEPT !.body = "returned", !.shortCode = shortCode ]

\* createShortCode(ctx, originalUrl), part_002:29-33: the seed candidate and
\* the whole retry budget.
createShortCodeOfUrl(p, originalUrl) ==
    /\ workload = "content_hash"
    /\ FreeSlot(p)
    /\ nreq < MaxRequests
    /\ nreq' = nreq + 1
    /\ loc' = [loc EXCEPT ![p] =
                 [LocInit EXCEPT !.op = "createShortCode",
                                 !.body.URL = originalUrl,
                                 !.shortCode = hashedUrl(originalUrl, 0),
                                 !.retryCount = MAX_RETRIES]]
    /\ Goto(p, "createShortUrlWithRetry")
    /\ UNCHANGED <<now, store, cache, counter, lastCounterEpochTimestamp,
                   ctxUser, ncalls, workload, blockedAPIKeys, lastBlocklistLoad, issued>>
    /\ lastOp' = NoOp

\* One call of createShortUrlWithRetry, part_002:43-56.  What the existence
\* check answers depends on rows of other URLs and is left open.
\* doesShortCodeExist of that revision, part_002:58-66:
\* db.Find(&UrlShortener{ShortCode: shortCode}).Count(&exists).  gorm takes
\* conditions from the primary key of the value handed to Find only, and this
\* UrlShortener (part_006:8-14) has none: the count is that of the table.
doesShortCodeExistByFind(db, shortCode) == Len(db) > 0

createShortUrlWithRetry(p) ==
    /\ pc[p] = "createShortUrlWithRetry"
    /\ \E shortCodeExists \in
            (IF loc[p].op = "shortenUrl"
             THEN { doesShortCodeExistByFind(store, loc[p].shortCode) }
             ELSE BOOLEAN),
          uuid \in Uuids :
         LET l == loc[p]
             newShortCode == hashedUrl(l.body.URL \o <<uuid>>,
                                       MAX_RETRIES - l.retryCount)
         IN  IF shortCodeExists
             THEN IF l.retryCount > 0
                  THEN /\ loc' = [loc EXCEPT ![p].shortCode = newShortCode,
                                             ![p].retryCount = @ - 1]
                       /\ Goto(p, "createShortUrlWithRetry")
                  ELSE /\ Reply(p, Response(0, "panic: max retry count exceded"))
                       /\ loc' = [loc EXCEPT ![p].exhausted = TRUE]
             ELSE IF l.op = "shortenUrl"
             THEN /\ Goto(p, "exec")
                  /\ UNCHANGED loc
             ELSE /\ Reply(p, Returned(l.shortCode))
                  /\ UNCHANGED loc
    /\ UNCHANGED <<now, store, cache, counter, lastCounterEpochTimestamp,
                   ctxUser, nreq, ncalls, workload, blockedAPIKeys, lastBlocklistLoad, issued>>
    /\ lastOp' = NoOp

-----------------------------------------------------------------------------
(* shortenUrl of the content-hash revision (unnamed/part_001:15-59) *)

\* A row the migration seeds the table with (0001_create_url_shortener.sql).
SeedUrl == << "https://", "www.google.com" >>
SeedCode == << "g", "o", "o", "g", "l", "e", "1", "2", "3" >>
SeededStore(k) == [ i \in 1..k |-> NewUrlShortener(SeedUrl, SeedCode) ]

\* part_002:90-100: db.Find(&UrlShortener{OriginalUrl: url}).Count(&exists),
\* the count of the table, as in doesShortCodeExistByFind.
doesUrlExist(db, url, dbErr) ==
    IF dbErr THEN FALSE ELSE Len(db) > 0

\* part_002:102-113: db.First(&urlShortener, UrlShortener{OriginalUrl: url});
\* here the struct is a condition.  No row, or an error, gives "".
getShortCode(db, url, dbErr) ==
    LET found == { i \in DOMAIN db : db[i].OriginalUrl = url }
    IN  IF dbErr \/ found = {} THEN <<>> ELSE db[MinOf(found)].ShortCode

\* part_001:15-44: validation, the lookup of the URL, the start of the
\* generation.
shortenUrlByHash(p, url) ==
    /\ workload = "content_hash_shorten"
    /\ Quiescent
    /\ FreeSlot(p)
    /\ nreq < MaxRequests
    /\ nreq' = nreq + 1
    /\ \E dbErr \in BOOLEAN :
         LET l == [LocInit EXCEPT !.op = "shortenUrl", !.body.URL = url]
         IN  IF url = EmptyUrl
             THEN /\ Reply(p, Response(400, "URL is required"))
                  /\ loc' = [loc EXCEPT ![p] = l]
                  /\ UNCHANGED issued
             ELSE IF doesUrlExist(store, url, dbErr)
             THEN LET shortCode == getShortCode(store, url, dbErr)
                  IN  /\ Reply(p, Created(shortCode))
                      /\ loc' = [loc EXCEPT ![p] = [l EXCEPT !.shortCode = shortCode]]
                      /\ issued' = issued \cup
                            { [ op |-> "shortenUrl", shortCode |-> shortCode,
                                url |-> url, custom |-> FALSE, n |-> nreq + 1 ] }
             ELSE /\ loc' = [loc EXCEPT ![p] =
                                [l EXCEPT !.shortCode = hashedUrl(url, 0),
                                          !.retryCount = MAX_RETRIES]]
                  /\ Goto(p, "createShortUrlWithRetry")
                  /\ UNCHANGED issued
    /\ UNCHANGED <<now, store, cache, counter, lastCounterEpochTimestamp,
                   ctxUser, ncalls, workload, blockedAPIKeys, lastBlocklistLoad>>
    /\ lastOp' = NoOp

\* part_001:46-58: the INSERT by db.Exec; an error is a panic.
shortenUrlExec(p) ==
    /\ pc[p] = "exec"
    /\ \E dbErr \in BOOLEAN :
         LET l == loc[p]
             row == NewUrlShortener(l.body.URL, l.shortCode)
         IN  IF dbErr \/ UniqueViolation(store, row)
             THEN /\ Reply(p, Response(0, "panic: insert"))
                  /\ UNCHANGED <<store, issued>>
             ELSE /\ store' = Append(store, row)
                  /\ Reply(p, Created(l.shortCode))
                  /\ issued' = issued \cup
                        { [ op |-> "shortenUrl", shortCode |-> l.shortCode,
                            url |-> l.body.URL, custom |-> FALSE, n |-> nreq ] }
    /\ UNCHANGED <<now, cache, counter, lastCounterEpochTimestamp, ctxUser,
                   loc, nreq, ncalls, workload, blockedAPIKeys, lastBlocklistLoad>>
    /\ lastOp' = NoOp

-----------------------------------------------------------------------------
(* The two collision resolvers, started on a store that already holds links;
   the requests come one after the other *)

ResolverWorkloads ==
    { "content_hash", "content_hash_shorten", "time_counter", "bulk" }

\* The workloads whose requests call createShortCode of helpers.go.
LoadedWorkloads == { "time_counter", "bulk" }

\* The links of earlier requests: the first k codes the generator produces
\* in the second StartTime.
LoadedStore(k) ==
    [ i \in 1..k |-> NewUrlShortener(AbsUrl, toBase36(StartTime + i)) ]

InitResolver ==
    /\ now = StartTime
    /\ workload \in ResolverWorkloads
    /\ blockedAPIKeys = Ptr({})
    /\ lastBlocklistLoad = StartTime
    /\ \E k \in 0..MaxLoaded :
         store = IF workload \in LoadedWorkloads THEN LoadedStore(k)
                 ELSE IF workload = "content_hash_shorten" /\ k <= 1
                 THEN SeededStore(k)
                 ELSE <<>>
    /\ cache = {}
    /\ counter = 0
    /\ lastCounterEpochTimestamp \in
         IF workload \in LoadedWorkloads THEN { 0, StartTime } ELSE { 0 }
    /\ ctxUser = Nil
    /\ pc = [p \in Procs |-> "idle"]
    /\ loc = [p \in Procs |-> LocInit]
    /\ resp = [p \in Procs |-> NoResp]
    /\ nreq = 0
    /\ ncalls = 0
    /\ issued = {}
    /\ lastOp = NoOp

NextResolver ==
    \/ Tick
    \/ \E p \in Procs : Finish(p)
    \/ \E p \in Procs :
          workload = "time_counter" /\ Quiescent /\ ShortenStart(p, PlainBody, "")
    \/ \E p \in Procs : CscEnter(p)
    \/ \E p \in Procs : CscCompare(p)
    \/ \E p \in Procs : CscReset(p)
    \/ \E p \in Procs : CscCheck(p)
    \/ \E p \in Procs : ShortenInsert(p)
    \/ \E p \in Procs : createShortCodeOfUrl(p, AbsUrl)
    \/ \E p \in Procs : createShortUrlWithRetry(p)
    \/ \E p \in Procs, url \in Urls : shortenUrlByHash(p, url)
    \/ \E p \in Procs : shortenUrlExec(p)
    \/ \E p \in Procs, items \in BulkItems(workload),
             apiKey \in AuthApiKeys(workload) :
          Quiescent /\ BulkRequest(p, items, apiKey)
    \/ \E p \in Procs : pricingPlanMiddleware(p)
    \/ \E p \in Procs : BulkValidate(p)
    \/ \E p \in Procs : BulkInsert(p)

SpecResolver == InitResolver /\ [][NextResolver]_vars

-----------------------------------------------------------------------------
(* The cache helpers, called the way the package's tests call them: with
   models the caller builds, not only with rows read from the store *)

CacheCodes == { toBase36(StartTime + 1), toBase36(StartTime + 2) }

\* The expires_at of the models: none, already passed, a second ahead, and
\* more than redis' 24 hours ahead.
CacheExpiries ==
    { Nil, Ptr(StartTime), Ptr(StartTime + 1), Ptr(StartTime + CacheMaxTTL + 1) }

CacheModels(shortCode) ==
    { [ NewUrlShortener(AbsUrl, shortCode)
          EXCEPT !.ExpiresAt = expiresAt, !.DeletedAt = deletedAt ] :
        expiresAt \in CacheExpiries, deletedAt \in { Nil, Ptr(StartTime) } }

\* A completed helper call with its arguments and its error result.
Called(op, shortCode, urlModel, err) ==
    [ op |-> op, shortCode |-> shortCode, urlModel |-> urlModel, err |-> err ]

InitCache ==
    /\ now = StartTime
    /\ workload = "cache"
    /\ blockedAPIKeys = Ptr({})
    /\ lastBlocklistLoad = StartTime
    /\ \E k \in 0..1 : store = LoadedStore(k)
    /\ cache = {}
    /\ counter = 0
    /\ lastCounterEpochTimestamp = 0
    /\ ctxUser = Nil
    /\ pc = [p \in Procs |-> "idle"]
    /\ loc = [p \in Procs |-> LocInit]
    /\ resp = [p \in Procs |-> NoResp]
    /\ nreq = 0
    /\ ncalls = 0
    /\ issued = {}
    /\ lastOp = NoOp

cacheUrlOfModel(shortCode, urlModel) ==
    /\ ncalls < MaxCacheCalls
    /\ ncalls' = ncalls + 1
    /\ \E cacheErr \in BOOLEAN :
      LET result == cacheUrl(cache, now, shortCode, urlModel, cacheErr)
      IN  /\ cache' = result.cache
          /\ lastOp' = Called("cacheUrl", shortCode, urlModel, result.err)
    /\ UNCHANGED <<now, store, counter, lastCounterEpochTimestamp,
                   ctxUser, pc, loc, resp, nreq, workload, blockedAPIKeys, lastBlocklistLoad, issued>>

updateCachedUrlOfModel(shortCode, urlModel) ==
    /\ ncalls < MaxCacheCalls
    /\ ncalls' = ncalls + 1
    /\ \E cacheErr \in BOOLEAN :
      LET result == updateCachedUrl(cache, now, shortCode, urlModel, cacheErr)
      IN  /\ cache' = result.cache
          /\ lastOp' = Called("updateCachedUrl", shortCode, urlModel, result.err)
    /\ UNCHANGED <<now, store, counter, lastCounterEpochTimestamp,
                   ctxUser, pc, loc, resp, nreq, workload, blockedAPIKeys, lastBlocklistLoad, issued>>

removeCachedUrlOfCode(shortCode) ==
    /\ ncalls < MaxCacheCalls
    /\ ncalls' = ncalls + 1
    /\ \E cacheErr \in BOOLEAN :
      LET result == removeCachedUrl(cache, shortCode, cacheErr)
      IN  /\ cache' = result.cache
          /\ lastOp' = Called("removeCachedUrl", shortCode, Nil, result.err)
    /\ UNCHANGED <<now, store, counter, lastCounterEpochTimestamp,
                   ctxUser, pc, loc, resp, nreq, workload, blockedAPIKeys, lastBlocklistLoad, issued>>

NextCache ==
    \/ Tick
    \/ \E shortCode \in CacheCodes : \E urlModel \in CacheModels(shortCode) :
          cacheUrlOfModel(shortCode, urlModel)
    \/ \E shortCode \in CacheCodes : \E urlModel \in CacheModels(shortCode) :
          updateCachedUrlOfModel(shortCode, urlModel)
    \/ \E shortCode \in CacheCodes : removeCachedUrlOfCode(shortCode)

SpecCache == InitCache /\ [][NextCache]_vars

-----------------------------------------------------------------------------
(* The authenticated routes on a store that already holds a link, with or
   without owner; the requests of the two users overlap *)

\* The link of an earlier shortenUrl request, sent with or without API key
\* (service.go:69-73).
OwnedLink(userId) ==
    [ NewUrlShortener(AbsUrl, CustomCode) EXCEPT !.UserId = userId ]

LinkOwners == { Nil, Ptr(1) }

InitAuth ==
    /\ now = StartTime
    /\ workload = "owned_links"
    /\ blockedAPIKeys = Ptr({})
    /\ lastBlocklistLoad = StartTime
    /\ \E userId \in LinkOwners : store = << OwnedLink(userId) >>
    /\ cache = {}
    /\ counter = 0
    /\ lastCounterEpochTimestamp = 0
    /\ ctxUser = Nil
    /\ pc = [p \in Procs |-> "idle"]
    /\ loc = [p \in Procs |-> LocInit]
    /\ resp = [p \in Procs |-> NoResp]
    /\ nreq = 0
    /\ ncalls = 0
    /\ issued = {}
    /\ lastOp = NoOp

NextAuth ==
    \/ \E p \in Procs : Finish(p)
    \/ \E p \in Procs, shortCode \in RequestCodes :
          redirectToOriginalUrl(p, shortCode, "")
    \/ \E p \in Procs, shortCode \in RequestCodes, apiKey \in ApiKeys :
          DeleteRequest(p, shortCode, apiKey)
    \/ \E p \in Procs : DeleteLookup(p)
    \/ \E p \in Procs : DeleteWrite(p)
    \/ \E p \in Procs, shortCode \in RequestCodes, activate \in ActivateChoices,
             apiKey \in ApiKeys :
          EditRequest(p, shortCode, activate, apiKey)
    \/ \E p \in Procs : EditLookup(p)
    \/ \E p \in Procs : EditWrite(p)

SpecAuth == InitAuth /\ [][NextAuth]_vars

-----------------------------------------------------------------------------
(* ipRateLimitMiddleware (main.go:246-294) in front of the routes *)

\* r.RemoteAddr as net/http sets it for a served request: the "IP:port" of
\* the client's connection.
RemoteAddr(ip, port) == <<ip, ":", port>>

ClientIP(remoteAddr) == remoteAddr[1]

RateWorkloads ==
    { "rate_redirect", "rate_shorten", "rate_other", "rate_redis_errors" }

\* The route the clients of a run call.
RatePath(w) ==
    CASE w = "rate_redirect" -> "/redirect"
      [] w = "rate_other"    -> "/user/urls"
      [] OTHER               -> "/shorten"

\* One client with two connections; for /shorten a second client as well.
\* Where the calls of redis can fail, one client with one connection.
RemoteAddrs(w) ==
    { RemoteAddr("10.0.0.1", "40001") } \cup
    CASE w = "rate_redis_errors" -> {}
      [] w = "rate_shorten" -> { RemoteAddr("10.0.0.1", "40002"),
                                 RemoteAddr("10.0.0.2", "40001") }
      [] OTHER -> { RemoteAddr("10.0.0.1", "40002") }

\* The outcomes of a call of redis: err is nil, or not.
RedisErrs(w) == IF w = "rate_redis_errors" THEN BOOLEAN ELSE { FALSE }

\* Lines 254-263: the key prefix and the limit of a path.
pathClass(path) ==
    IF path = "/redirect" THEN "redirect:"
    ELSE IF path = "/shorten" THEN "shorten:"
    ELSE "default:"

redisKeyOf(path, ip) == <<pathClass(path), ip>>

rateLimitOf(path) ==
    IF path = "/redirect" THEN RedirectRateLimit
    ELSE IF path = "/shorten" THEN ShortenRateLimit
    ELSE DefaultRateLimit

\* Lines 272-277: the TTL given to a new key.
expiryOf(path) ==
    IF path = "/redirect" \/ path = "/shorten" THEN SecondWindow ELSE MinuteWindow

\* redis INCR: adds one to the key; a key that is not there starts at 0 and
\* has no TTL.
RedisIncr(c, key) ==
    IF \E e \in c : e.key = key
    THEN { IF e.key = key THEN [e EXCEPT !.data = @ + 1] ELSE e : e \in c }
    ELSE c \cup { [key |-> key, data |-> 1, expireAt |-> Nil] }

RedisCount(c, key) == (CHOOSE e \in c : e.key = key).data

\* redis EXPIRE key seconds
RedisExpireKey(c, t, key, expiry) ==
    { IF e.key = key THEN [e EXCEPT !.expireAt = Ptr(t + expiry)] ELSE e : e \in c }

\* Lines 285-290: the answer for a count.
rateLimitAnswer(count, rateLimit) ==
    IF count > rateLimit
    THEN Response(429, "Too many requests")
    ELSE Response(200, "next.ServeHTTP")

\* History: the window of a client IP and path class that is open at time t.
\* A window opens with the first counted request and lasts expiryOf(path)
\* from the moment that request sets the TTL.
IpWindows(h) == { g \in h : "ip" \in DOMAIN g }

OpenWindows(h, t, ip, path) ==
    { g \in IpWindows(h) :
                /\ g.ip = ip
                /\ g.class = pathClass(path)
                /\ (g.start = Nil \/ t < Deref(g.start) + expiryOf(path)) }

CountedIn(h, t, ip, path) ==
    LET open == OpenWindows(h, t, ip, path)
    IN  IF open = {}
        THEN [ip |-> ip, class |-> pathClass(path), start |-> Nil, n |-> 1]
        ELSE LET g == CHOOSE g \in open : TRUE
             IN  [g EXCEPT !.n = @ + 1]

TimedFrom(h, t, ip, path) ==
    { IF g.ip = ip /\ g.class = pathClass(path) /\ g.start = Nil
      THEN [g EXCEPT !.start = Ptr(t)]
      ELSE g : g \in IpWindows(h) } \cup (h \ IpWindows(h))

\* History: for each redis key, the time of the INCR that created it, and
\* whether a request counted on it since has been answered 429.
KeyWindows(h) == { g \in h : "redisKey" \in DOMAIN g }

KeyCounted(h, t, redisKey, count, rateLimit) ==
    IF count = 1
    THEN [redisKey |-> redisKey, first |-> t, limited |-> FALSE]
    ELSE LET g == CHOOSE g \in KeyWindows(h) : g.redisKey = redisKey
         IN  [g EXCEPT !.limited = @ \/ count > rateLimit]

\* The client of a key was rate limited, and the window of the key has
\* elapsed since the first request of that window.
DueAgain(h, t, redisKey, path) ==
    \E g \in KeyWindows(h) :
        /\ g.redisKey = redisKey
        /\ g.limited
        /\ t >= g.first + expiryOf(path)

InitRateLimit ==
    /\ now = StartTime
    /\ workload \in RateWorkloads
    /\ blockedAPIKeys = Ptr({})
    /\ lastBlocklistLoad = StartTime
    /\ store = <<>>
    /\ cache = {}
    /\ counter = 0
    /\ lastCounterEpochTimestamp = 0
    /\ ctxUser = Nil
    /\ pc = [p \in Procs |-> "idle"]
    /\ loc = [p \in Procs |-> LocInit]
    /\ resp = [p \in Procs |-> NoResp]
    /\ nreq = 0
    /\ ncalls = 0
    /\ issued = {}
    /\ lastOp = NoOp

\* The passing of time; redis drops the keys whose TTL has run out.
RateTick ==
    /\ now < StartTime + MaxTicks
    /\ now' = now + 1
    /\ cache' = { e \in cache : e.expireAt = Nil \/ Deref(e.expireAt) > now + 1 }
    /\ UNCHANGED <<store, counter, lastCounterEpochTimestamp, ctxUser,
                   pc, loc, resp, nreq, ncalls, workload, blockedAPIKeys, lastBlocklistLoad, issued, lastOp>>

\* The answers of the requests before have been read. The one client of
\* "rate_redis_errors" sends a request while another is still in the
\* middleware; the clients of the other runs wait for the answer.
MayArrive ==
    IF workload = "rate_redis_errors"
    THEN \A q \in Procs : pc[q] # "done"
    ELSE Quiescent

\* Lines 249-270 and, for a count other than 1, lines 285-290.
ipRateLimitMiddleware(p, remoteAddr, path) ==
    /\ FreeSlot(p)
    /\ MayArrive
    /\ nreq < rateLimitOf(RatePath(workload)) + MaxOverLimit
    /\ nreq' = nreq + 1
    /\ LET ip == remoteAddr
           redisKey == redisKeyOf(path, ip)
           rateLimit == rateLimitOf(path)
           window == CountedIn(issued, now, ClientIP(remoteAddr), path)
           l == [ op |-> "ipRateLimit", remoteAddr |-> remoteAddr,
                  path |-> path, redisKey |-> redisKey, count |-> 0, nth |-> 0,
                  dueAgain |-> DueAgain(issued, now, redisKey, path) ]
       IN  \E redisErr \in RedisErrs(workload) :
             IF redisErr
             THEN /\ UNCHANGED <<cache, issued>>
                  /\ loc' = [loc EXCEPT ![p] = l]
                  /\ Reply(p, Response(500, "Error incrementing request count"))
             ELSE LET c == RedisIncr(cache, redisKey)
                      count == RedisCount(c, redisKey)
                  IN  /\ cache' = c
                      /\ issued' =
                           { g \in IpWindows(issued) : g.ip # window.ip
                                                       \/ g.class # window.class }
                           \cup { window }
                           \cup { g \in KeyWindows(issued) : g.redisKey # redisKey }
                           \cup { KeyCounted(issued, now, redisKey, count, rateLimit) }
                      /\ loc' = [loc EXCEPT ![p] =
                                    [l EXCEPT !.count = count, !.nth = window.n]]
                      /\ IF count = 1
                         THEN Goto(p, "rlExpire")
                         ELSE Reply(p, rateLimitAnswer(count, rateLimit))
    /\ UNCHANGED <<now, store, counter, lastCounterEpochTimestamp, ctxUser,
                   ncalls, workload, blockedAPIKeys, lastBlocklistLoad, lastOp>>

\* Lines 272-290: the first request of a key gives it its TTL.
ipRateLimitExpire(p) ==
    /\ pc[p] = "rlExpire"
    /\ LET l == loc[p]
       IN  \E redisErr \in RedisErrs(workload) :
             IF redisErr
             THEN /\ UNCHANGED <<cache, issued>>
                  /\ Reply(p, Response(500, "Error setting expiry"))
             ELSE /\ cache' = RedisExpireKey(cache, now, l.redisKey, expiryOf(l.path))
                  /\ issued' = TimedFrom(issued, now, ClientIP(l.remoteAddr), l.path)
                  /\ Reply(p, rateLimitAnswer(l.count, rateLimitOf(l.path)))
    /\ UNCHANGED <<now, store, counter, lastCounterEpochTimestamp, ctxUser,
                   loc, nreq, ncalls, workload, blockedAPIKeys, lastBlocklistLoad, lastOp>>

NextRateLimit ==
    \/ RateTick
    \/ \E p \in Procs : Finish(p)
    \/ \E p \in Procs, remoteAddr \in RemoteAddrs(workload) :
          ipRateLimitMiddleware(p, remoteAddr, RatePath(workload))
    \/ \E p \in Procs : ipRateLimitExpire(p)

SpecRateLimit == InitRateLimit /\ [][NextRateLimit]_vars

-----------------------------------------------------------------------------
(* createShortCode called directly and its codes inserted in batches, as by
   TestCreateNUrlEntriesBatch (url_shortner_test.go:1093-1133) *)

GeneratorWorkloads == { "generate_insert", "generate_batch", "generate_concurrent" }

\* batchSize: each code is inserted before the next is generated, or a
\* batch of codes is generated before any of them is inserted.
batchSize(w) == IF w = "generate_batch" THEN MaxBatch ELSE 1

\* The goroutines that run the loop: one, or each of them.
Loops(w) == IF w = "generate_concurrent" THEN NumProcs ELSE 1

\* The number of entries the test creates.
Entries(w) == IF w = "generate_concurrent" THEN MaxConcurrent ELSE MaxGenerated

InitGenerator ==
    /\ now = StartTime
    /\ workload \in GeneratorWorkloads
    /\ blockedAPIKeys = Ptr({})
    /\ lastBlocklistLoad = StartTime
    /\ store = <<>>
    /\ cache = {}
    /\ counter = 0
    /\ lastCounterEpochTimestamp = 0
    /\ ctxUser = Nil
    /\ pc = [p \in Procs |-> "idle"]
    /\ loc = [p \in Procs |-> LocInit]
    /\ resp = [p \in Procs |-> NoResp]
    /\ nreq = 0
    /\ ncalls = 0
    /\ issued = {}
    /\ lastOp = NoOp

\* Lines 1094-1104: the loop starts with an empty batch.
BatchLoopStart(p) ==
    /\ FreeSlot(p)
    /\ nreq < Loops(workload)
    /\ nreq' = nreq + 1
    /\ loc' = [loc EXCEPT ![p] = [LocInit EXCEPT !.op = "batch"]]
    /\ Goto(p, "batch")
    /\ UNCHANGED <<now, store, cache, counter, lastCounterEpochTimestamp,
                   ctxUser, ncalls, workload, blockedAPIKeys, lastBlocklistLoad, issued, lastOp>>

\* Lines 1105-1115: the next createShortCode(&ctx, 0) of the batch, or the
\* batch is complete, or all entries are created.
BatchNext(p) ==
    /\ pc[p] = "batch"
    /\ IF Len(loc[p].shortCodes) < batchSize(workload) /\ ncalls < Entries(workload)
       THEN /\ ncalls' = ncalls + 1
            /\ loc' = [loc EXCEPT ![p].retryCount = 0, ![p].idx = ncalls + 1]
            /\ Goto(p, "csc")
       ELSE /\ UNCHANGED <<ncalls, loc>>
            /\ IF loc[p].shortCodes # <<>>
               THEN Goto(p, "batchCreate")
               ELSE Reply(p, Response(0, "PASS"))
    /\ UNCHANGED <<now, store, cache, counter, lastCounterEpochTimestamp,
                   ctxUser, nreq, workload, blockedAPIKeys, lastBlocklistLoad, issued, lastOp>>

\* Lines 1112-1117: the code createShortCode returned joins the batch.
\* History: the call, its epoch second, its count and its code.
BatchAppend(p) ==
    /\ pc[p] = "insert"
    /\ loc[p].op = "batch"
    /\ loc' = [loc EXCEPT ![p].shortCodes = Append(@, loc[p].shortCode)]
    /\ issued' = issued \cup
                   { [ op |-> "createShortCode", n |-> loc[p].idx,
                       currentEpochTime |-> loc[p].currentEpochTime,
                       count |-> loc[p].count,
                       shortCode |-> loc[p].shortCode,
                       checkDbErr |-> loc[p].checkDbErr ] }
    /\ Goto(p, "batch")
    /\ UNCHANGED <<now, store, cache, counter, lastCounterEpochTimestamp,
                   ctxUser, nreq, ncalls, workload, blockedAPIKeys, lastBlocklistLoad, lastOp>>

\* The rows of a batch.
BatchRows(shortCodes) ==
    [ i \in DOMAIN shortCodes |-> NewUrlShortener(AbsUrl, shortCodes[i]) ]

\* db.Create(&batch): one INSERT of all rows; the unique index on short_code
\* rejects it when a code is in the table or twice in the batch.
BatchUniqueViolation(db, rows) ==
    \/ \E i \in DOMAIN rows : UniqueViolation(db, rows[i])
    \/ \E i \in DOMAIN rows, j \in DOMAIN rows :
          i # j /\ rows[i].ShortCode = rows[j].ShortCode

\* Lines 1120-1124: the batch is inserted, or the test fails.
BatchCreate(p) ==
    /\ pc[p] = "batchCreate"
    /\ LET rows == BatchRows(loc[p].shortCodes)
       IN  \E dbErr \in BOOLEAN :
             IF dbErr
             THEN /\ Reply(p, Response(0, "Fatalf: database error"))
                  /\ UNCHANGED <<store, loc>>
             ELSE IF BatchUniqueViolation(store, rows)
             THEN /\ Reply(p, Response(0, "Fatalf: UNIQUE constraint failed"))
                  /\ UNCHANGED <<store, loc>>
             ELSE /\ store' = store \o rows
                  /\ loc' = [loc EXCEPT ![p].shortCodes = <<>>]
                  /\ Goto(p, "batch")
    /\ UNCHANGED <<now, cache, counter, lastCounterEpochTimestamp,
                   ctxUser, nreq, ncalls, workload, blockedAPIKeys, lastBlocklistLoad, issued, lastOp>>

NextGenerator ==
    \/ Tick
    \/ \E p \in Procs : BatchLoopStart(p)
    \/ \E p \in Procs : BatchNext(p)
    \/ \E p \in Procs : CscEnter(p)
    \/ \E p \in Procs : CscCompare(p)
    \/ \E p \in Procs : CscReset(p)
    \/ \E p \in Procs : CscCheck(p)
    \/ \E p \in Procs : BatchAppend(p)
    \/ \E p \in Procs : BatchCreate(p)

SpecGenerator == InitGenerator /\ [][NextGenerator]_vars

\* A goroutine that is inside createShortCode keeps running.
createShortCodeStep(p) ==
    CscEnter(p) \/ CscCompare(p) \/ CscReset(p) \/ CscCheck(p)

SpecGeneratorFair ==
    SpecGenerator /\ \A p \in Procs : WF_vars(createShortCodeStep(p))

-----------------------------------------------------------------------------
(* toBase36 (helpers.go:78-93) called on its own *)

\* The non-negative arguments: the numbers up to MaxNum, which hold the step
\* from one digit to two, and the steps to three, four, five and six digits.
RECURSIVE Power36(_)
Power36(n) == IF n = 0 THEN 1 ELSE 36 * Power36(n - 1)

Nums ==
    (0..MaxNum) \cup { Power36(n) - 1 : n \in 2..5 } \cup { Power36(n) : n \in 2..5 }

InitEncode ==
    /\ now = StartTime
    /\ workload = "toBase36"
    /\ blockedAPIKeys = Ptr({})
    /\ lastBlocklistLoad = StartTime
    /\ store = <<>>
    /\ cache = {}
    /\ counter = 0
    /\ lastCounterEpochTimestamp = 0
    /\ ctxUser = Nil
    /\ pc = [p \in Procs |-> "idle"]
    /\ loc = [p \in Procs |-> LocInit]
    /\ resp = [p \in Procs |-> NoResp]
    /\ nreq = 0
    /\ ncalls = 0
    /\ issued = {}
    /\ lastOp = NoOp

\* One call toBase36(num); the caller keeps the result.
toBase36Call(p, num) ==
    /\ FreeSlot(p)
    /\ ncalls < MaxHelperCalls
    /\ ncalls' = ncalls + 1
    /\ loc' = [loc EXCEPT ![p] = [op |-> "toBase36", num |-> num]]
    /\ Reply(p, Returned(toBase36(num)))
    /\ UNCHANGED <<now, store, cache, counter, lastCounterEpochTimestamp,
                   ctxUser, nreq, workload, blockedAPIKeys, lastBlocklistLoad, issued, lastOp>>

NextEncode ==
    \E p \in Procs, num \in Nums : toBase36Call(p, num)

SpecEncode == InitEncode /\ [][NextEncode]_vars

-----------------------------------------------------------------------------
(* blocklistMiddleware (main.go:214-244) with loadBlocklist (main.go:182-212) *)

\* 5*time.Minute, in seconds.
BlocklistTTL == 300

\* The values of the X-API-Key header the clients send.
BlocklistHeaders == { "", " ", "key-hobby", " key-hobby ", "key-enterprise" }

\* strings.TrimSpace on the strings of the model.
TrimSpace(str) ==
    CASE str = " "              -> ""
      [] str = " key-hobby "    -> "key-hobby"
      [] str = "key-hobby "     -> "key-hobby"
      [] OTHER                  -> str

\* os.ReadFile("blacklist.csv"): the file is missing, cannot be read, or is
\* read as its lines (the parts between the "\n" of its data).
BlacklistFiles ==
    { [ err |-> "not exist",  lines |-> <<>> ],
      [ err |-> "read error", lines |-> <<>> ],
      [ err |-> "", lines |-> << "" >> ],
      [ err |-> "", lines |-> << "key-hobby", "" >> ],
      [ err |-> "", lines |-> << "key-hobby ", "", "key-enterprise", "" >> ] }

\* The map loadBlocklist builds from the lines of the file.
newBlocklist(lines) ==
    { TrimSpace(lines[i]) : i \in 1..Len(lines) } \ { "" }

\* loadBlocklist, run under blocklistMutex: its error and the two package
\* variables after it.
loadBlocklist(file) ==
    IF now - lastBlocklistLoad < BlocklistTTL /\ blockedAPIKeys # Nil
    THEN [ err |-> FALSE, blockedAPIKeys |-> blockedAPIKeys,
           lastBlocklistLoad |-> lastBlocklistLoad ]
    ELSE IF file.err = "not exist"
    THEN [ err |-> FALSE, blockedAPIKeys |-> Ptr({}), lastBlocklistLoad |-> now ]
    ELSE IF file.err # ""
    THEN [ err |-> TRUE, blockedAPIKeys |-> blockedAPIKeys,
           lastBlocklistLoad |-> lastBlocklistLoad ]
    ELSE [ err |-> FALSE, blockedAPIKeys |-> Ptr(newBlocklist(file.lines)),
           lastBlocklistLoad |-> now ]

\* http.Error on a ResponseWriter: the first status written is the status of
\* the response, every call adds its line to the body.
httpError(w, error, code) ==
    [ w EXCEPT !.status = IF w.status = 0 THEN code ELSE w.status,
               !.body = w.body \o error \o "\n" ]

\* The server after blocklistMiddleware() was built at startup (main.go:215):
\* the first load failed, or it succeeded and the list is fresh, about to
\* become stale, or stale.
InitBlocklist ==
    /\ now = StartTime
    /\ store = <<>>
    /\ cache = {}
    /\ counter = 0
    /\ lastCounterEpochTimestamp = 0
    /\ ctxUser = Nil
    /\ pc = [p \in Procs |-> "idle"]
    /\ loc = [p \in Procs |-> LocInit]
    /\ resp = [p \in Procs |-> NoResp]
    /\ nreq = 0
    /\ ncalls = 0
    /\ workload = "blocklist"
    /\ \/ /\ blockedAPIKeys = Nil
          /\ lastBlocklistLoad = StartTime - BlocklistTTL
       \/ /\ blockedAPIKeys \in { Ptr({}), Ptr({ "key-hobby" }) }
          /\ lastBlocklistLoad \in { StartTime - BlocklistTTL,
                                     StartTime - BlocklistTTL + 1, StartTime }
    /\ issued = {}
    /\ lastOp = NoOp

\* main.go:220-230: the request arrives; with an API key the list is reloaded,
\* and a failed reload writes a 500 and goes on.
blocklistMiddleware(p, header, file) ==
    /\ workload = "blocklist"
    /\ FreeSlot(p)
    /\ nreq < MaxRequests
    /\ nreq' = nreq + 1
    /\ LET apiKey == TrimSpace(header)
           load   == loadBlocklist(file)
           l      == [ op |-> "blocklist", apiKey |-> apiKey, loadErr |-> FALSE,
                       writes |-> 0, passedOn |-> FALSE ]
       IN  IF apiKey = ""
           THEN /\ loc' = [loc EXCEPT ![p] = l]
                /\ Goto(p, "next")
                /\ UNCHANGED <<blockedAPIKeys, lastBlocklistLoad>>
           ELSE /\ blockedAPIKeys' = load.blockedAPIKeys
                /\ lastBlocklistLoad' = load.lastBlocklistLoad
                /\ pc' = [pc EXCEPT ![p] = "isBlocked"]
                /\ IF load.err
                   THEN /\ resp' = [resp EXCEPT ![p] =
                                      httpError(@, "Something went wrong", 500)]
                        /\ loc' = [loc EXCEPT ![p] =
                                      [l EXCEPT !.loadErr = TRUE, !.writes = 1]]
                   ELSE /\ loc' = [loc EXCEPT ![p] = l]
                        /\ UNCHANGED resp
    /\ UNCHANGED <<now, store, cache, counter, lastCounterEpochTimestamp,
                   ctxUser, ncalls, workload, issued, lastOp>>

\* main.go:232-239: the key is looked up under the read lock; a blocked key
\* is answered 401.
blocklistLookup(p) ==
    /\ pc[p] = "isBlocked"
    /\ LET isBlocked == /\ blockedAPIKeys # Nil
                        /\ loc[p].apiKey \in Deref(blockedAPIKeys)
       IN  IF isBlocked
           THEN /\ Reply(p, httpError(resp[p], "API key is blocked", 401))
                /\ loc' = [loc EXCEPT ![p].writes = @ + 1]
           ELSE /\ Goto(p, "next")
                /\ UNCHANGED loc
    /\ UNCHANGED <<now, store, cache, counter, lastCounterEpochTimestamp,
                   ctxUser, nreq, ncalls, workload, blockedAPIKeys,
                   lastBlocklistLoad, issued, lastOp>>

\* main.go:224, 241: next.ServeHTTP(w, r); the rest of the chain writes its
\* own response to the same ResponseWriter.
nextServeHTTP(p, error, code) ==
    /\ pc[p] = "next"
    /\ Reply(p, httpError(resp[p], error, code))
    /\ loc' = [loc EXCEPT ![p].writes = @ + 1, ![p].passedOn = TRUE]
    /\ UNCHANGED <<now, store, cache, counter, lastCounterEpochTimestamp,
                   ctxUser, nreq, ncalls, workload, blockedAPIKeys,
                   lastBlocklistLoad, issued, lastOp>>

\* What the handlers behind the middleware answer.
NextAnswers == { <<"OK", 200>>, <<"Invalid API key", 401>> }

NextBlocklist ==
    \/ Tick
    \/ \E p \in Procs : Finish(p)
    \/ \E p \in Procs, header \in BlocklistHeaders, file \in BlacklistFiles :
          blocklistMiddleware(p, header, file)
    \/ \E p \in Procs : blocklistLookup(p)
    \/ \E p \in Procs, a \in NextAnswers : nextServeHTTP(p, a[1], a[2])

SpecBlocklist == InitBlocklist /\ [][NextBlocklist]_vars

-----------------------------------------------------------------------------
(* Properties *)

\* The states of a link, read off the fields of its rows.
IsLive(row, t) ==
    row.DeletedAt = Nil /\ (row.ExpiresAt = Nil \/ Deref(row.ExpiresAt) > t)

LiveRows == { i \in DOMAIN store : IsLive(store[i], now) }

RowsOf(shortCode) == { i \in DOMAIN store : store[i].ShortCode = shortCode }

\* A request answered at this step: the slot was running and is now done.
Answers(p, op) ==
    /\ pc[p] # "done"
    /\ pc'[p] = "done"
    /\ loc'[p].op = op

\* C1: at every moment, under every interleaving of shortenUrl,
\* shortenUrlBulk, deleteUrl and activateUrl, no two live links have the
\* same short code.
C1_LiveCodesUnique ==
    \A i \in LiveRows, j \in LiveRows :
        store[i].ShortCode = store[j].ShortCode => i = j

\* C1 witness: a code was tombstoned and has just been activated again next
\* to a second live link.
C1_Witness ==
    /\ lastOp.op = "activateUrl"
    /\ RowsOf(lastOp.shortCode) \cap LiveRows # {}
    /\ Cardinality(LiveRows) >= 2

\* C2: the requests to shortenUrl without a custom code that are answered
\* 201 return pairwise distinct codes: the code of each such answer is the
\* code of no answer given before it, whether the requests ran one after the
\* other or at the same time.
C2_GeneratedCodesDistinct ==
    [][ \A p \in Procs :
          ( /\ Answers(p, "shorten")
            /\ resp'[p].status = 201
            /\ loc'[p].body.CustomUrl = Nil )
          => \A r \in issued :
                (r.op = "shorten" /\ ~r.custom) => r.shortCode # resp'[p].shortCode
      ]_vars

\* C2 witness: two requests without a custom code that ran at the same time
\* have both been answered 201.
C2_Witness ==
    \A p \in Procs :
        /\ pc[p] = "done"
        /\ loc[p].op = "shorten"
        /\ loc[p].body.CustomUrl = Nil
        /\ resp[p].status = 201

\* C3: createShortCode either fails or returns a code that, at the moment it
\* returns, is the code of no live link; it never returns a colliding code.
C3_ReturnedCodeNotLive ==
    [][ \A p \in Procs :
          (pc[p] = "cscCheck" /\ pc'[p] = "insert")
          => RowsOf(loc'[p].shortCode) \cap LiveRows = {}
      ]_vars

\* A code all of whose rows carry a tombstone: deleteUrl has completed on it
\* and activateUrl has not since.
Tombstoned(shortCode) ==
    /\ RowsOf(shortCode) # {}
    /\ \A i \in RowsOf(shortCode) : store[i].DeletedAt # Nil

\* The live entry the cache holds for a code, if any.
CachedLive(shortCode) ==
    { e \in RedisGet(cache, now, shortCode) : jsonUnmarshal(e.data).DeletedAt = Nil }

\* C4: once deleteUrl has completed on a code, every redirectToOriginalUrl of
\* the code answers 404, also when the cache still holds the link as live:
\* no tombstoned code is redirected.
C4_TombstonedNotRedirected ==
    [][ \A p \in Procs :
          (Answers(p, "redirect") /\ Tombstoned(loc'[p].shortCode))
          => resp'[p].status = 404
      ]_vars

\* C4 witness: a redirect of a tombstoned code was answered 404 while the
\* cache holds the link as live.
C4_Witness ==
    \E p \in Procs :
        /\ pc[p] = "done"
        /\ loc[p].op = "redirect"
        /\ Tombstoned(loc[p].shortCode)
        /\ CachedLive(loc[p].shortCode) # {}
        /\ resp[p].status = 404

\* C5: every deleteUrl and activateUrl of a code invalidates the cache entry
\* of the code: when the mutation has completed the cache holds no entry
\* written before it, and doesShortCodeExist answers what the store holds.
C5_MutationInvalidatesCache ==
    lastOp.op \in { "deleteUrl", "activateUrl" } =>
        /\ RedisGet(cache, now, lastOp.shortCode) = {}
        /\ doesShortCodeExist(cache, store, now, lastOp.shortCode, FALSE, FALSE)
             = (RowsOf(lastOp.shortCode) \cap LiveRows # {})

\* The rows that carry an expiry and no tombstone.
ExpiringRows ==
    { i \in DOMAIN store : store[i].ExpiresAt # Nil /\ store[i].DeletedAt = Nil }

\* The X-Password header a redirect of the row needs to get through.
PasswordOk(row, password) ==
    \/ row.Password = Nil
    \/ bcryptCompareHashAndPassword(Deref(row.Password), password)

\* The password header of the request slot p has served.
HeaderOf(l) == IF l.body.Password = Nil THEN "" ELSE Deref(l.body.Password)

\* C6 (existence check): while the time is before the expires_at of a link
\* doesShortCodeExist answers true for its code when the store answers; from
\* expires_at on it answers false.
C6_ExistsUntilExpiry ==
    \A i \in ExpiringRows :
        LET shortCode == store[i].ShortCode
            expiresAt == Deref(store[i].ExpiresAt)
        IN  /\ now < expiresAt =>
                \A cacheErr \in BOOLEAN :
                    doesShortCodeExist(cache, store, now, shortCode, cacheErr, FALSE)
            /\ now >= expiresAt =>
                \A cacheErr \in BOOLEAN, dbErr \in BOOLEAN :
                    ~doesShortCodeExist(cache, store, now, shortCode, cacheErr, dbErr)

\* C6 (redirect): a redirect of the code of a link with an expiry is answered
\* 307 before expires_at, when the store answers and the password fits, and
\* 404 from expires_at on.
C6_RedirectUntilExpiry ==
    \A p \in Procs :
        Answers(p, "redirect") =>
            \A i \in ExpiringRows \cap RowsOf(loc'[p].shortCode) :
                LET expiresAt == Deref(store[i].ExpiresAt)
                IN  /\ ( /\ now < expiresAt
                         /\ ~loc'[p].checkDbErr
                         /\ PasswordOk(store[i], HeaderOf(loc'[p])) )
                        => resp'[p].status = 307
                    /\ now >= expiresAt => resp'[p].status = 404

\* C6: a link created with an expiry resolves (redirect 307, doesShortCodeExist
\* true) while the time is before its expires_at, and no longer once the
\* time has reached it (doesShortCodeExist false, redirect 404).
C6_ResolvesUntilExpiry ==
    [](C6_ExistsUntilExpiry) /\ [][C6_RedirectUntilExpiry]_vars

\* C6 witness: a redirect of a link whose expires_at has passed since its
\* creation was answered 404, and the link carries no tombstone.
C6_Witness ==
    \E p \in Procs, i \in ExpiringRows :
        /\ pc[p] = "done"
        /\ loc[p].op = "redirect"
        /\ loc[p].shortCode = store[i].ShortCode
        /\ Deref(store[i].ExpiresAt) = StartTime + 1
        /\ now >= Deref(store[i].ExpiresAt)
        /\ ~loc[p].checkDbErr
        /\ resp[p].status = 404

\* C7: for every link created with a 201 and without password, a redirect of
\* its code while the link is live is answered 307 with a Location header
\* that is exactly the URL given at creation.
C7_LocationIsOriginalUrl ==
    [][ \A p \in Procs :
          Answers(p, "redirect") =>
              \A r \in issued, i \in LiveRows \cap RowsOf(loc'[p].shortCode) :
                  ( /\ r.shortCode = loc'[p].shortCode
                    /\ store[i].Password = Nil
                    /\ ~loc'[p].checkDbErr )
                  => (resp'[p].status = 307 /\ resp'[p].location = r.url)
      ]_vars

\* C8: a redirect of a code that never existed, of a tombstoned code and of
\* an expired code get one and the same response: 404 with the same body.
C8_NotFoundIndistinguishable ==
    [][ \A p \in Procs :
          ( /\ Answers(p, "redirect")
            /\ loc'[p].shortCode # <<>>
            /\ RowsOf(loc'[p].shortCode) \cap LiveRows = {} )
          => resp'[p] = Response(404, "Short code not found")
      ]_vars

\* C8 witness: a redirect of a code that no row ever had was answered while
\* the store holds a live link, and got the 404.
C8_Witness ==
    \E p \in Procs :
        /\ pc[p] = "done"
        /\ loc[p].op = "redirect"
        /\ loc[p].shortCode = UnknownCode
        /\ LiveRows # {}
        /\ resp[p] = Response(404, "Short code not found")

\* C9: a failed store call of the existence check is never taken as "the
\* code does not exist": neither createShortCode nor the custom-code check
\* of shortenUrl goes on to use a code whose check failed.
C9_FailedCheckNotTakenAsFree ==
    \A p \in Procs :
        (loc[p].op = "shorten" /\ pc[p] = "insert") => ~loc[p].checkDbErr

\* C10: when the insert of a generated code fails on the duplicate code,
\* shortenUrl generates again and retries; the conflict is answered to the
\* client only when the retry budget is used up.
C10_ConflictOnlyAfterRetries ==
    \A p \in Procs :
        ( /\ pc[p] = "done"
          /\ loc[p].op = "shorten"
          /\ loc[p].body.CustomUrl = Nil
          /\ loc[p].insertErr = "UNIQUE constraint failed" )
        => loc[p].retryCount >= MAX_RETRIES

\* A request whose code generation found no free code within the retry
\* budget.
Exhausted(p) ==
    \/ loc[p].exhausted
    \/ loc[p].op \in { "shorten", "bulk" } /\ loc[p].retryCount > MAX_RETRIES

Panicked(p) == pc[p] = "done" /\ resp[p] = Response(0, "panic: max retry count exceded")

\* C11: when code generation finds no free code within the retry budget the
\* failure comes back as an error value and the request is answered with a
\* transient-failure response (a 5xx status); the request does not crash.
C11_ExhaustionIsAnswered ==
    \A p \in Procs :
        (pc[p] = "done" /\ Exhausted(p)) =>
            (resp[p].status \in 500..599 /\ ~Panicked(p))

\* C12: a failed cache read changes no result: doesShortCodeExist then
\* answers exactly what its store query alone answers, which is "a live row
\* has the code" whenever that query succeeds, and hands no cache error to
\* its caller.
C12_CacheErrorFallsBackToStore ==
    \A shortCode \in StoreCodes \cup { CustomCode, UnknownCode } :
        /\ \A dbErr \in BOOLEAN :
              doesShortCodeExist(cache, store, now, shortCode, TRUE, dbErr)
                = doesShortCodeExist({}, store, now, shortCode, FALSE, dbErr)
        /\ doesShortCodeExist(cache, store, now, shortCode, TRUE, FALSE)
              = (RowsOf(shortCode) \cap LiveRows # {})

\* C12 witness: shortenUrl took a custom code as free while the cache held an
\* entry of the code and the store query succeeded: the cache read had failed
\* and the store, which holds no live row of the code, decided.
C12_Witness ==
    \E p \in Procs :
        /\ pc[p] = "insert"
        /\ loc[p].op = "shorten"
        /\ ~loc[p].checkDbErr
        /\ RedisGet(cache, now, loc[p].shortCode) # {}
        /\ RowsOf(loc[p].shortCode) \cap LiveRows = {}

\* C13: read-through population: after a redirectToOriginalUrl of a code that
\* missed the cache and found a live row in the store, the cache holds an
\* entry of the code.
C13_RedirectPopulatesCache ==
    [][ \A p \in Procs :
          ( /\ Answers(p, "redirect")
            /\ RedisGet(cache, now, loc'[p].shortCode) = {}
            /\ RowsOf(loc'[p].shortCode) \cap LiveRows # {}
            /\ ~loc'[p].checkDbErr )
          => RedisGet(cache', now', loc'[p].shortCode) # {}
      ]_vars

\* The entries of a code the cache holds as live and not yet expired.
CachedLiveUnexpired(shortCode) ==
    { e \in CachedLive(shortCode) :
        \/ jsonUnmarshal(e.data).ExpiresAt = Nil
        \/ Deref(jsonUnmarshal(e.data).ExpiresAt) > now }

\* C14: the redirect reads the cache first: while the cache holds a live,
\* unexpired entry of a code, redirectToOriginalUrl answers 307 with the
\* cached destination, also when the store has no record of the code any
\* more; without entry and without record it answers 404.
C14_RedirectReadsCacheFirst ==
    [][ \A p \in Procs :
          (Answers(p, "redirect") /\ loc'[p].shortCode # <<>>) =>
              /\ \A e \in CachedLiveUnexpired(loc'[p].shortCode) :
                    jsonUnmarshal(e.data).Password = Nil =>
                        /\ resp'[p].status = 307
                        /\ resp'[p].location =
                             httpRedirectLocation(jsonUnmarshal(e.data).OriginalUrl)
              /\ ( /\ RedisGet(cache, now, loc'[p].shortCode) = {}
                   /\ RowsOf(loc'[p].shortCode) \cap LiveRows = {} )
                  => resp'[p].status = 404
      ]_vars

\* A cached model that is tombstoned or whose own expires_at has passed.
DeadModel(urlModel, t) ==
    \/ urlModel.DeletedAt # Nil
    \/ urlModel.ExpiresAt # Nil /\ Deref(urlModel.ExpiresAt) <= t

\* C15: a cache entry that is marked tombstoned, or whose embedded expires_at
\* has passed, is a miss for the existence check: doesShortCodeExist answers
\* what it answers without the entry.
C15_DeadEntryIsMiss ==
    \A shortCode \in CacheCodes :
        (\E e \in RedisGet(cache, now, shortCode) :
             DeadModel(jsonUnmarshal(e.data), now))
        => doesShortCodeExist(cache, store, now, shortCode, FALSE, FALSE)
             = doesShortCodeExist({}, store, now, shortCode, FALSE, FALSE)

\* A call of cacheUrl that has just returned without error, for a model whose
\* expires_at, if any, is in the future.
CacheUrlStored ==
    /\ lastOp'.op = "cacheUrl"
    /\ ~lastOp'.err
    /\ lastOp'.urlModel.ExpiresAt # Nil
          => Deref(lastOp'.urlModel.ExpiresAt) > now'

MinTTL(a, b) == IF a < b THEN a ELSE b

\* C16: the TTL cacheUrl gives an entry is min(expires_at - now, 24h), and
\* 24h for a model without expires_at.
C16_TTLCappedAtMax ==
    [][ CacheUrlStored =>
          \A e \in RedisGet(cache', now', lastOp'.shortCode) :
              e.expireAt - now' =
                  IF lastOp'.urlModel.ExpiresAt = Nil THEN CacheMaxTTL
                  ELSE MinTTL(Deref(lastOp'.urlModel.ExpiresAt) - now', CacheMaxTTL)
      ]_vars

\* C17: cacheUrl of a model whose expires_at is not in the future returns
\* no error and leaves every entry of the cache as it was.
C17_ExpiredModelNotCached ==
    [][ ( /\ lastOp'.op = "cacheUrl"
          /\ lastOp'.urlModel.ExpiresAt # Nil
          /\ Deref(lastOp'.urlModel.ExpiresAt) <= now' )
        => ~lastOp'.err /\ cache' = cache
      ]_vars

\* cacheUrl has returned for a model already expired while the cache holds
\* an entry of that code.
C17_Witness ==
    /\ lastOp.op = "cacheUrl"
    /\ lastOp.urlModel.ExpiresAt # Nil
    /\ Deref(lastOp.urlModel.ExpiresAt) <= now
    /\ RedisGet(cache, now, lastOp.shortCode) # {}

Absent(c, t, shortCode) ==
    getCachedUrl(c, t, shortCode, FALSE) = [urlModel |-> Nil, err |-> FALSE]

\* C18: a removeCachedUrl that returns without error leaves no entry of its
\* code and the entries of the other codes as they were; a code without
\* entry stays without entry until a cacheUrl or updateCachedUrl of it.
C18_RemovedStaysAbsent ==
    [][ /\ (lastOp'.op = "removeCachedUrl" /\ ~lastOp'.err) =>
              /\ Absent(cache', now', lastOp'.shortCode)
              /\ \A e \in cache \cup cache' :
                    e.key # lastOp'.shortCode => (e \in cache <=> e \in cache')
        /\ \A shortCode \in CacheCodes :
              ( /\ Absent(cache, now, shortCode)
                /\ ~( /\ lastOp'.op \in { "cacheUrl", "updateCachedUrl" }
                      /\ lastOp'.shortCode = shortCode ) )
              => Absent(cache', now', shortCode)
      ]_vars

\* removeCachedUrl has returned without error for one code while the cache
\* holds an entry of the other.
C18_Witness ==
    /\ lastOp.op = "removeCachedUrl"
    /\ ~lastOp.err
    /\ Absent(cache, now, lastOp.shortCode)
    /\ \E e \in cache : e.key # lastOp.shortCode

\* C19: in the content-hash strategy every retry candidate is one character
\* longer than the candidate before it, so a code returned after at least
\* one collision is longer than the seed of NORMAL_SHORT_CODE_LENGTH
\* characters.
C19_RetryCandidateOneLonger ==
    [][ \A p \in Procs :
          pc[p] = "createShortUrlWithRetry" =>
              /\ loc'[p].retryCount = loc[p].retryCount - 1 =>
                    Len(loc'[p].shortCode) = Len(loc[p].shortCode) + 1
              /\ ( /\ pc'[p] = "done"
                   /\ resp'[p].body = "returned"
                   /\ loc[p].retryCount < MAX_RETRIES )
                  => Len(resp'[p].shortCode) > NORMAL_SHORT_CODE_LENGTH
      ]_vars

\* k: the number of candidates of a request the existence check has
\* reported as taken.
Collisions(l) ==
    IF l.op \in { "createShortCode", "shortenUrl" }
    THEN MAX_RETRIES - l.retryCount + (IF l.exhausted THEN 1 ELSE 0)
    ELSE l.retryCount

\* The resolver hands the candidate it has just checked to its caller.
ResolverReturns(p) ==
    \/ /\ pc[p] = "createShortUrlWithRetry"
       /\ pc'[p] = "done"
       /\ resp'[p] = Returned(loc[p].shortCode)
    \/ /\ pc[p] = "cscCheck"
       /\ pc'[p] = "insert"
       /\ loc'[p].shortCode = toBase36(numbericShortCode(loc[p]))

\* The resolver gives up.
ResolverFails(p) ==
    /\ pc[p] \in { "createShortUrlWithRetry", "csc" }
    /\ pc'[p] = "done"
    /\ resp'[p] = Response(0, "panic: max retry count exceded")

ResolverLeaves(p) ==
    /\ pc[p] \in { "createShortUrlWithRetry", "csc", "cscCheck" }
    /\ pc'[p] \in { "done", "insert" }

\* C20 as stated: with the first k candidates taken, both resolvers return
\* the (k+1)-th candidate when k < MAX_RETRIES and fail when
\* k >= MAX_RETRIES.
C20_FailsAtMaxRetries ==
    [][ \A p \in Procs :
          ResolverLeaves(p) =>
              IF Collisions(loc'[p]) < MAX_RETRIES
              THEN ResolverReturns(p)
              ELSE ResolverFails(p)
      ]_vars

\* C20, amended: with the first k candidates taken, both resolvers return
\* the (k+1)-th candidate when k <= MAX_RETRIES, and fail, by panicking,
\* only when k > MAX_RETRIES.
C20_FailsPastMaxRetries ==
    [][ \A p \in Procs :
          ResolverLeaves(p) =>
              IF Collisions(loc'[p]) <= MAX_RETRIES
              THEN ResolverReturns(p)
              ELSE ResolverFails(p) /\ Collisions(loc'[p]) = MAX_RETRIES + 1
      ]_vars

\* createShortCode has returned its fourth candidate after MAX_RETRIES
\* collisions.
C20_Witness ==
    \E p \in Procs :
        /\ loc[p].op = "shorten"
        /\ pc[p] = "insert"
        /\ Collisions(loc[p]) = MAX_RETRIES
        /\ loc[p].shortCode = toBase36(StartTime + MAX_RETRIES + 1)

\* C21: under the content-hash strategy, two shortenUrl requests for the same
\* URL are answered with the same short code, and the store then holds
\* exactly one row of that URL.
C21_SameUrlSameCodeOneRecord ==
    \A r1 \in issued, r2 \in issued :
        ( /\ r1.op = "shortenUrl" /\ r2.op = "shortenUrl"
          /\ r1.url = r2.url
          /\ r1.n # r2.n )
        => /\ r1.shortCode = r2.shortCode
           /\ Cardinality({ i \in DOMAIN store : store[i].OriginalUrl = r1.url }) = 1

\* The custom code a shortenUrl request asks for.
CustomOf(l) == Deref(l.body.CustomUrl)

\* C22: shortenUrl with a custom_url that is the code of a live link answers
\* 400 and leaves the store as it is; with a custom_url that is not the code
\* of a live link it is not rejected, answers 201 with exactly that code, and
\* the code then resolves to the given URL.  (Requests whose store calls
\* fail are left aside.)
C22_CustomCodeRejectedOrTaken ==
    [][ \A p \in Procs :
          /\ ( /\ pc[p] = "customCheck" /\ loc[p].op = "shorten"
               /\ pc'[p] # "customCheck"
               /\ ~loc'[p].checkDbErr )
             => IF RowsOf(CustomOf(loc[p])) \cap LiveRows # {}
                THEN resp'[p].status = 400 /\ store' = store
                ELSE resp'[p].status # 400
          /\ ( /\ pc[p] = "insert" /\ loc[p].op = "shorten"
               /\ pc'[p] = "done"
               /\ loc[p].body.CustomUrl # Nil
               /\ RowsOf(CustomOf(loc[p])) \cap LiveRows = {}
               /\ loc'[p].insertErr # "database error" )
             => /\ resp'[p] = Created(CustomOf(loc[p]))
                /\ getUrlModel(store', now', CustomOf(loc[p]), FALSE) # Nil
                /\ Deref(getUrlModel(store', now', CustomOf(loc[p]), FALSE)).OriginalUrl
                     = loc[p].body.URL
      ]_vars

\* C23: a tombstoned or expired link does not block its code: a shortenUrl
\* that reaches its insert with a code whose rows are all tombstoned or
\* expired answers 201, the code resolves to the new destination and the old
\* rows are still in the store.  (Inserts the database fails are left aside.)
C23_DeadLinkFreesCode ==
    [][ \A p \in Procs :
          ( /\ pc[p] = "insert" /\ loc[p].op = "shorten"
            /\ pc'[p] = "done"
            /\ RowsOf(loc[p].shortCode) # {}
            /\ RowsOf(loc[p].shortCode) \cap LiveRows = {}
            /\ loc'[p].insertErr # "database error" )
          => /\ resp'[p] = Created(loc[p].shortCode)
             /\ getUrlModel(store', now', loc[p].shortCode, FALSE) # Nil
             /\ Deref(getUrlModel(store', now', loc[p].shortCode, FALSE)).OriginalUrl
                  = loc[p].body.URL
             /\ \A i \in DOMAIN store : store'[i] = store[i]
      ]_vars

\* C24: a redirectToOriginalUrl answered 307 increases the Views of the row
\* it resolved and sets its LastViewed; one answered 404, 400 or 401 leaves
\* both as they were.
C24_ResolutionCountsView ==
    [][ \A p \in Procs :
          Answers(p, "redirect") =>
              \A i \in RowsOf(loc'[p].shortCode) \cap LiveRows :
                  IF resp'[p].status = 307
                  THEN /\ store'[i].Views = store[i].Views + 1
                       /\ store'[i].LastViewed = Ptr(now)
                  ELSE /\ store'[i].Views = store[i].Views
                       /\ store'[i].LastViewed = store[i].LastViewed
      ]_vars

\* The user whose API key a request carries.
Requester(l) == getUserFromApiKeyIfExists(l.apiKey, FALSE)

OwnedBy(row, user) ==
    user # Nil /\ row.UserId # Nil /\ Deref(row.UserId) = Deref(user).Id

\* C25: only the owner of a link can tombstone it: a deleteShortCode answered
\* 200 was sent by the owner of the link and leaves it tombstoned; one sent
\* by anybody else, or for a link without owner, is not answered 200 and
\* leaves the link as it was.
C25_OnlyOwnerTombstones ==
    [][ \A p \in Procs :
          Answers(p, "delete") =>
              \A i \in RowsOf(loc'[p].shortCode) :
                  IF OwnedBy(store[i], Requester(loc'[p]))
                  THEN resp'[p].status = 200 => store'[i].DeletedAt # Nil
                  ELSE resp'[p].status # 200 /\ store'[i] = store[i]
      ]_vars

\* C26: the owner of a tombstoned link restores it through editUrl: an
\* editUrl with activate = true, sent by the owner for a tombstoned code and
\* let through by apiKeyMiddleware, is answered 200 and leaves the link live.
C26_OwnerRestoresByEdit ==
    [][ \A p \in Procs :
          ( /\ Answers(p, "edit")
            /\ pc[p] \in { "edit", "editWrite" }
            /\ loc'[p].activate = Ptr(TRUE)
            /\ Tombstoned(loc'[p].shortCode)
            /\ \A i \in RowsOf(loc'[p].shortCode) :
                  OwnedBy(store[i], Requester(loc'[p])) )
          => /\ resp'[p].status = 200
             /\ \A i \in RowsOf(loc'[p].shortCode) : IsLive(store'[i], now')
      ]_vars

\* C27: for a live link created with a password, redirectToOriginalUrl
\* answers 400 to a request without password and 401 to one with another
\* password; it answers 307 only to a request that carries a password the
\* stored hash matches, and answers such a request 307 with the destination
\* of the link.  (Requests whose store query fails are left aside.)
C27_PasswordGate ==
    [][ \A p \in Procs :
          (Answers(p, "redirect") /\ ~loc'[p].checkDbErr) =>
              \A i \in RowsOf(loc'[p].shortCode) \cap LiveRows :
                  store[i].Password # Nil =>
                      LET given == HeaderOf(loc'[p])
                          matches == bcryptCompareHashAndPassword(
                                         Deref(store[i].Password), given)
                      IN  /\ given = "" => resp'[p].status = 400
                          /\ (given # "" /\ ~matches) => resp'[p].status = 401
                          /\ resp'[p].status = 307 => matches
                          /\ (given # "" /\ matches) =>
                                resp'[p] = Redirected(
                                    httpRedirectLocation(store[i].OriginalUrl))
      ]_vars

\* A redirect of a password-protected link has been answered 307.
C27_Witness ==
    \E p \in Procs :
        /\ pc[p] = "done" /\ loc[p].op = "redirect"
        /\ resp[p].status = 307
        /\ HeaderOf(loc[p]) # ""
        /\ \E i \in RowsOf(loc[p].shortCode) : store[i].Password # Nil

\* Two items of a bulk request ask for the same custom code.
DuplicateCustom(items) ==
    \E i \in DOMAIN items, j \in DOMAIN items :
        /\ i # j
        /\ items[i].CustomUrl # Nil
        /\ items[i].CustomUrl = items[j].CustomUrl

\* A step in which the handler shortenUrlBulk answers the request of slot p.
BulkAnswers(p) ==
    /\ Answers(p, "bulk")
    /\ pc[p] \notin { "idle", "pricing" }

\* C28: a shortenUrlBulk request in which two items ask for the same
\* custom_url is answered 400, whether or not the store has the code.
C28_DuplicateCustomRejected ==
    [][ \A p \in Procs :
          (BulkAnswers(p) /\ DuplicateCustom(loc'[p].items))
          => resp'[p].status = 400
      ]_vars

\* The handler shortenUrlBulk answers a request that has passed validation.
BulkAnswersValid(p) ==
    /\ BulkAnswers(p)
    /\ pc[p] # "bulk"

\* Entry k of the answer is a marker, or the code of a row of URL k.
BulkEntryOk(l, shortCodes, k) ==
    \/ shortCodes[k] \in { InvalidExpiryMarker, ErrorMarker }
    \/ /\ l.items[k].CustomUrl # Nil => shortCodes[k] = Deref(l.items[k].CustomUrl)
       /\ \E i \in DOMAIN store' :
             /\ store'[i].ShortCode = shortCodes[k]
             /\ store'[i].OriginalUrl = l.items[k].URL

\* C29: a shortenUrlBulk request that passes validation is answered 201 with
\* one entry per URL of the request, in request order: a marker, or a short
\* code that has a row in the store.
C29_BulkOneEntryPerUrl ==
    [][ \A p \in Procs :
          BulkAnswersValid(p) =>
              /\ resp'[p].status = 201
              /\ Len(resp'[p].shortCodes) = Len(loc'[p].items)
              /\ \A k \in DOMAIN resp'[p].shortCodes :
                    BulkEntryOk(loc'[p], resp'[p].shortCodes, k)
      ]_vars

\* The middleware answers a request whose redis calls succeeded.
RateAnswers(p) ==
    /\ Answers(p, "ipRateLimit")
    /\ resp'[p].status # 500

\* C30: within one window, the n-th request of a client IP to a path class
\* is passed to the handler iff n is at most the limit of the class, and is
\* answered 429 otherwise.
C30_NthRequestPassedIffWithinLimit ==
    [][ \A p \in Procs :
          RateAnswers(p) =>
              LET l == loc'[p]
              IN  /\ (resp'[p].status = 200) <=> (l.nth <= rateLimitOf(l.path))
                  /\ (resp'[p].status = 429) <=> (l.nth > rateLimitOf(l.path))
      ]_vars

\* C31: a client that was rate limited is served again once the window of
\* its key has elapsed since the first request of that window: the next
\* request of that key is passed to the handler.
C31_ServedAgainAfterWindow ==
    [][ \A p \in Procs :
          (RateAnswers(p) /\ loc'[p].dueAgain) => resp'[p].status = 200
      ]_vars

\* The request that touched a key is still in the middleware.
Touching(key) ==
    \E p \in Procs : pc[p] = "rlExpire" /\ loc[p].redisKey = key

\* The window length of a key, by its prefix.
WindowOf(key) ==
    IF key[1] \in { "redirect:", "shorten:" } THEN SecondWindow ELSE MinuteWindow

\* C38: a rate-limit key that exists once the request that touched it has
\* finished, also when that request was answered 500, has a TTL, of at most
\* its window length.
C38_KeyNeverWithoutExpiry ==
    \A e \in cache :
        ~Touching(e.key) =>
            /\ e.expireAt # Nil
            /\ Deref(e.expireAt) <= now + WindowOf(e.key)

\* The calls of toBase36 that have returned.
Encoded == { p \in Procs : pc[p] = "done" /\ loc[p].op = "toBase36" }

\* The value of a digit and of a numeral, most significant digit first.
DigitValue(c) == (CHOOSE i \in DOMAIN base36Chars : base36Chars[i] = c) - 1

RECURSIVE NumeralValue(_)
NumeralValue(r) ==
    IF r = <<>> THEN 0
    ELSE 36 * NumeralValue(SubSeq(r, 1, Len(r) - 1)) + DigitValue(r[Len(r)])

IsCanonicalNumeral(r, num) ==
    /\ r # <<>>
    /\ \A i \in DOMAIN r : \E j \in DOMAIN base36Chars : r[i] = base36Chars[j]
    /\ Len(r) > 1 => r[1] # "0"
    /\ num = 0 => r = <<"0">>
    /\ NumeralValue(r) = num

\* C32: toBase36 returns for every non-negative integer its canonical
\* base-36 numeral, never the empty string; two calls return the same
\* string exactly when they were given the same number; toBase36(36) is
\* "10" and differs from toBase36(35).
C32_CanonicalBase36 ==
    /\ \A p \in Encoded : IsCanonicalNumeral(resp[p].shortCode, loc[p].num)
    /\ \A p \in Encoded, q \in Encoded :
          (resp[p].shortCode = resp[q].shortCode) <=> (loc[p].num = loc[q].num)
    /\ \A p \in Encoded :
          /\ loc[p].num = 36 => resp[p].shortCode = <<"1", "0">>
          /\ loc[p].num = 35 => resp[p].shortCode = <<"z">>

\* toBase36 has been called with 35 and with 36.
C32_Witness ==
    \E p \in Encoded, q \in Encoded : loc[p].num = 35 /\ loc[q].num = 36

\* The createShortCode calls that have returned a code their existence
\* check found free, with a store query that succeeded.
Generated == { r \in issued : r.op = "createShortCode" /\ ~r.checkDbErr }

\* C33: the codes of sequential createShortCode calls are pairwise distinct,
\* also when a batch of them is generated before any of the batch is
\* inserted and across a change of the epoch second, and the insert of a
\* batch never fails on the unique constraint.
C33_BatchCodesDistinct ==
    workload \in { "generate_insert", "generate_batch" } =>
        /\ \A r1 \in Generated, r2 \in Generated :
              r1.n # r2.n => r1.shortCode # r2.shortCode
        /\ (\A r \in issued : r \in Generated) =>
              \A p \in Procs : resp[p].body # "Fatalf: UNIQUE constraint failed"

\* C34: where each code is inserted before the next is generated,
\* createShortCode never runs out of retries.
C34_NeverExhaustsSequentially ==
    workload = "generate_insert" => \A p \in Procs : ~Panicked(p)

\* The calls that hold a count they have not yet handed back.
Counting == { p \in Procs : /\ loc[p].op = "batch"
                            /\ pc[p] \in { "cscCompare", "cscReset", "cscCheck" } }

\* C35: within one epoch second the counts that createShortCode calls add
\* to the epoch offset are pairwise distinct, for sequential and for
\* concurrent calls.
C35_CountsDistinctWithinSecond ==
    /\ \A r1 \in Generated, r2 \in Generated :
          (r1.n # r2.n /\ r1.currentEpochTime = r2.currentEpochTime)
          => r1.count # r2.count
    /\ \A p \in Counting, q \in Counting :
          (p # q /\ loc[p].currentEpochTime = loc[q].currentEpochTime)
          => loc[p].count # loc[q].count

\* A createShortCode(ctx, 0) call is at its existence check, or on its way
\* to it; the checks it has made before all answered "exists" and are
\* counted by retryCount.
AtCheck(p) == pc[p] \in { "cscCompare", "cscReset", "cscCheck" }

\* C36: every createShortCode(ctx, 0) call makes at most MAX_RETRIES + 1
\* existence checks and terminates, by returning a code or by failing,
\* whatever the checks answer.
C36_TerminatesWithinBudget ==
    /\ [](\A p \in Procs : AtCheck(p) => loc[p].retryCount + 1 <= MAX_RETRIES + 1)
    /\ \A p \in Procs :
          (pc[p] = "csc" /\ loc[p].retryCount = 0) ~> (pc[p] \in { "insert", "done" })

\* A call has failed after MAX_RETRIES + 1 checks that all answered "exists".
C36_Witness ==
    \E p \in Procs :
        /\ loc[p].op = "batch"
        /\ Panicked(p)
        /\ loc[p].retryCount = MAX_RETRIES + 1

\* The handler behind apiKeyMiddleware reads the user of the context.
ReadsUser(p) ==
    /\ pc[p] \in { "delete", "edit" }
    /\ pc'[p] # pc[p]

\* C37: under every interleaving of authenticated requests, the handler of a
\* request sees as current user the user of that request's own X-API-Key.
C37_HandlerSeesOwnUser ==
    [][ \A p \in Procs : ReadsUser(p) => loc'[p].user = Requester(loc[p]) ]_vars

\* The request whose reload of the blocklist failed.
ReloadFailed(p) == loc[p].op = "blocklist" /\ loc[p].loadErr

\* C39: a request during which the reload of the blocklist fails is answered
\* with a single 500 response and is not passed on to the next handler.
C39_ReloadFailureIsOne500 ==
    \A p \in Procs : ReloadFailed(p) =>
        /\ ~loc[p].passedOn
        /\ pc[p] = "done" =>
              resp[p] = httpError(NoResp, "Something went wrong", 500)

====
